---- MODULE Spec2Model ----
(***************************************************************************)
(* Model of the volunteer portal's client-side services:                   *)
(*   - profile-service.js : the profile lifecycle (draft / pending /       *)
(*     approved / rejected, resubmission notes);                           *)
(*   - teams-service.js   : team records and the users' teams arrays.      *)
(* Every exported async function is a process that runs from one store     *)
(* call (await) to the next; store calls of different calls interleave.    *)
(* Strings whose contents matter (notes, formatted dates) are sequences    *)
(* of string pieces, concatenated with \o, the empty string being << >>.   *)
(***************************************************************************)
EXTENDS Integers, Sequences, FiniteSets, TLC

\* ------------------------------------------------------------------ bounds
\* Last value of the server clock.
MaxClock == 1
\* Longest notes (in pieces) a resubmission is let to write.
MaxNotesLen == 13
\* How many of the predefined teams a run of initializeTeams goes through.
MaxInitialTeams == 2

\* ----------------------------------------------------------------- domains
UserIds == {"u1", "u2"}
\* auth.currentUser === null
NoUser == "null"
Actors == UserIds \cup {NoUser}
\* Calls that can be in flight at once (between two awaits).
Procs == {"p1", "p2"}

Undefined == "undefined"
EmptyObject == "{}"
DefaultPersonalDetails == "{DOB:null,emergencyContact:''}"
DefaultDriving == "{c1Classification:false,dlNumber:'',niNumber:'',points:''}"
DefaultMedicalQualifications == "{certExpiry:null,details:'',gmc:'',hcpc:'',nbc:'',qualification:''}"
Sections == {"personalDetails", "driving", "medicalQualifications"}
\* Section payloads a caller passes.
SectionValues == {"v1"}

EmptyString == << >>
NullTimestamp == << >>
Timestamp(t) == <<t>>

StatusSet == {"draft", "pending", "approved", "rejected"}
\* Status arguments a caller of reviewProfile can pass: the two documented
\* ones, the empty string and some other string.
ReviewStatusArgs == {"approved", "rejected", ""}
ReviewNotesArgs == {EmptyString, <<"missing DL number">>}
\* updatedProfile.adminUse.notes; absent, undefined and '' are all falsy and
\* are the empty string here.
ExplicitNotesArgs == {EmptyString, <<"see attached licence">>}

\* new Date() in the caller's browser: local calendar dates.
ClientDates == { [day |-> 5, month |-> 3, year |-> 2025],
                 [day |-> 17, month |-> 12, year |-> 2025] }

VARIABLES
  profiles,   \* collection 'profiles': user id -> document or NoProfile
  clock,      \* server time
  proc,       \* per call slot: the profile call in flight between two awaits
  last,       \* the profile call that completed last, with what it read
  journey,    \* how far the run has followed the end-to-end scenario
  teams,      \* collection 'teams': team id -> document, or its absence
  users,      \* collection 'users': user id -> document (its teams array)
  del,        \* the deleteTeam call in flight or last finished
  tlast,      \* the teams-service store call applied last
  call,       \* the getUserTeams call in flight or last returned
  applicants, \* collection 'applicants': applicant id -> document
  hook,       \* per request slot: the stripeWebhook request between two awaits
  resp,       \* the HTTP response stripeWebhook sent last, with its request
  accounts,   \* collection 'users': user id -> the email and 2FA fields
  tokens,     \* collection '2faResetTokens': document id -> document
  mail,       \* collection 'mail': the reset mails queued
  reset,      \* per call slot: the 2FA reset call between two awaits
  rlast,      \* the 2FA reset call that returned last, with its result
  seed        \* per run: the initializeTeams call between two awaits

profileVars == <<profiles, proc, last, journey>>
teamVars == <<teams, users, del, tlast, call>>
webhookVars == <<applicants, hook, resp>>
resetVars == <<accounts, tokens, mail, reset, rlast>>
functionVars == <<webhookVars, resetVars, seed>>
vars == <<profiles, clock, proc, last, journey, teams, users, del, tlast, call,
          applicants, hook, resp, accounts, tokens, mail, reset, rlast, seed>>

NoProfile == [exists |-> FALSE]
Idle == [pc |-> "idle"]

\* ------------------------------------------------------ JavaScript helpers
\* section || fallback : an omitted section is falsy, an object is truthy
Or(a, b) == IF a = Undefined THEN b ELSE a
\* truthiness of a string
Truthy(str) == str # EmptyString

Digit == <<"0", "1", "2", "3", "4", "5", "6", "7", "8", "9">>
DigitStr(d) == Digit[d + 1]
\* en-GB abbreviated month names
MonthShort == <<"Jan", "Feb", "Mar", "Apr", "May", "Jun",
                "Jul", "Aug", "Sep", "Oct", "Nov", "Dec">>
\* day: '2-digit'
TwoDigit(n) == <<DigitStr((n \div 10) % 10), DigitStr(n % 10)>>
\* year: 'numeric'
Numeric4(n) == <<DigitStr((n \div 1000) % 10), DigitStr((n \div 100) % 10),
                 DigitStr((n \div 10) % 10), DigitStr(n % 10)>>
\* date.toLocaleDateString('en-GB', {day:'2-digit', month:'short', year:'numeric'})
ToLocaleDateString(d) ==
  TwoDigit(d.day) \o <<" ">> \o <<MonthShort[d.month]>> \o <<" ">> \o Numeric4(d.year)

\* `Profile updated by user on ${currentDate}. Requires review.`
UpdateLine(currentDate) ==
  <<"Profile updated by user on ">> \o currentDate \o <<". Requires review.">>

\* `if (!user)` on auth.currentUser, lines 61, 116, 158, 200, 242, 282, 309.
NotSignedIn_Never(actor) == FALSE
NotSignedIn(actor) == actor = NoUser

\* ------------------------------------------------------------ createProfile
\* A document that takes the sections as they come, omitted ones too.
NewProfile_NoDefaults(profileData) ==
  [ exists |-> TRUE,
    personalDetails |-> profileData.personalDetails,
    driving |-> profileData.driving,
    medicalQualifications |-> profileData.medicalQualifications,
    submission |-> [agreedToTerms |-> FALSE, submittedAt |-> NullTimestamp],
    adminUse |-> [status |-> "draft", approvedBy |-> "", notes |-> EmptyString,
                  reviewedAt |-> NullTimestamp] ]

\* The document createProfile builds from profileData.
NewProfile(profileData) ==
  [ exists |-> TRUE,
    personalDetails |-> Or(profileData.personalDetails, DefaultPersonalDetails),
    driving |-> Or(profileData.driving, DefaultDriving),
    medicalQualifications |-> Or(profileData.medicalQualifications, DefaultMedicalQualifications),
    submission |-> [agreedToTerms |-> FALSE, submittedAt |-> NullTimestamp],
    adminUse |-> [status |-> "draft", approvedBy |-> "", notes |-> EmptyString,
                  reviewedAt |-> NullTimestamp] ]

\* ------------------------------------------------------------ bookkeeping
\* What a call uses of the document getDoc returned: a section save its
\* existence and adminUse.status, submitProfile its existence,
\* updateAndResubmitProfile its existence and adminUse.notes.
NoSnap == [exists |-> FALSE]
Snap(pc, d) ==
  IF ~d.exists THEN NoSnap
  ELSE CASE pc = "save" -> [exists |-> TRUE, status |-> d.adminUse.status]
         [] pc = "submit" -> [exists |-> TRUE]
         [] pc = "resubmit" -> [exists |-> TRUE, notes |-> d.adminUse.notes]

\* The record of a completed call: what it was, whose document it addressed,
\* how it ended, its arguments, what its read returned (snap), and how many
\* store reads and writes it issued; pre is the adminUse.status of the
\* addressed document when the call's last step ran.
NoDocument == "(no document)"
StatusOf(u) ==
  IF u \in UserIds /\ profiles[u].exists THEN profiles[u].adminUse.status ELSE NoDocument
Completed(op, actor, user, result, args, snap, reads, writes) ==
  [op |-> op, actor |-> actor, user |-> user, result |-> result, args |-> args,
   snap |-> snap, pre |-> StatusOf(user), reads |-> reads, writes |-> writes]
NoArgs == [none |-> TRUE]

\* A call that has read (pc names the function) and not yet written.
\* arg is the argument the rest of the call uses: the section a save is of,
\* the agreedToTerms of a submission.
InFlight(pc, actor, arg, d) ==
  [pc |-> pc, actor |-> actor, arg |-> arg, snap |-> Snap(pc, d)]

\* setDoc(doc(db,'profiles',u), d): create or replace the whole document.
SetDoc(u, d) ==
  /\ profiles' = [profiles EXCEPT ![u] = d]
  /\ UNCHANGED clock

\* updateDoc(doc(db,'profiles',u), ...) applied: d is the merged document.
\* updateDoc rejects with not-found when the document does not exist.
UpdateDoc(u, d) ==
  /\ profiles[u].exists
  /\ SetDoc(u, d)

\* serverTimestamp() of the write being applied.
ServerTimestamp == Timestamp(clock)

\* ------------------------------------------------------------ createProfile
\* createProfile(profileData), lines 59-107: one store call, setDoc.
CreateProfile(actor, profileData, storeOk) ==
  LET done(result, writes) ==
        Completed("createProfile", actor, actor, result,
                  [profileData |-> profileData], NoSnap, 0, writes)
  IN
  IF NotSignedIn(actor)
    THEN last' = done("NotAuthenticated", 0) /\ UNCHANGED <<profiles, clock, proc>>
    ELSE IF ~storeOk
      THEN last' = done("StoreError", 1) /\ UNCHANGED <<profiles, clock, proc>>
      ELSE /\ SetDoc(actor, NewProfile(profileData))
           /\ UNCHANGED proc
           /\ last' = done("ok", 1)

\* ----------------------------------------------------------- section saves
\* updatePersonalDetails / updateDriving / updateMedicalQualifications,
\* lines 114-233: the three functions differ only in the section they write.
SaveOp(section) ==
  CASE section = "personalDetails" -> "updatePersonalDetails"
    [] section = "driving" -> "updateDriving"
    [] section = "medicalQualifications" -> "updateMedicalQualifications"

\* The status test of lines 128, 170, 212 on the document that was read.
ForcesDraft(status) == status = "pending" \/ status = ""

\* A section save up to the result of `await getDoc(profileRef)`.
SaveBegin(p, actor, section, storeOk) ==
  LET done(result, reads) ==
        Completed(SaveOp(section), actor, actor, result, [section |-> section],
                  NoSnap, reads, 0)
  IN
  /\ proc[p].pc = "idle"
  /\ UNCHANGED <<profiles, clock>>
  /\ IF NotSignedIn(actor)
       THEN last' = done("NotAuthenticated", 0) /\ UNCHANGED proc
       ELSE IF ~storeOk
         THEN last' = done("StoreError", 1) /\ UNCHANGED proc
         ELSE /\ proc' = [proc EXCEPT ![p] = InFlight("save", actor, section, profiles[actor])]
              /\ UNCHANGED last

\* A save that sets draft whatever status it read.
SaveUpdate_AlwaysDraft(d, section, value, statusRead) ==
  [d EXCEPT ![section] = value, !.adminUse.status = "draft"]

\* The document an updateDoc of a section save leaves, given the status the
\* call read: the section, and "adminUse.status": "draft" when that status
\* was pending or empty.
SaveUpdate(d, section, value, statusRead) ==
  IF ForcesDraft(statusRead)
    THEN [d EXCEPT ![section] = value, !.adminUse.status = "draft"]
    ELSE [d EXCEPT ![section] = value]

\* The data the fallback passes to createProfile: { <section>: value }.
OnlySection(section, value) ==
  [s \in Sections |-> IF s = section THEN value ELSE Undefined]

\* The continuation of a section save after its read: updateDoc when the
\* read found a document, createProfile (setDoc) when it found none. value is
\* the function's argument, which the code first uses here.
SaveWrite(p, value, storeOk) ==
  LET c == proc[p]
      u == c.actor
      done(result) ==
        Completed(SaveOp(c.arg), u, u, result,
                  [section |-> c.arg, value |-> value], c.snap, 1, 1)
  IN
  /\ c.pc = "save"
  /\ IF ~storeOk
       THEN /\ last' = done("StoreError")
            /\ proc' = [proc EXCEPT ![p] = Idle]
            /\ UNCHANGED <<profiles, clock>>
       ELSE IF c.snap.exists /\ ~profiles[u].exists
         THEN /\ last' = done("NotFound")
              /\ proc' = [proc EXCEPT ![p] = Idle]
              /\ UNCHANGED <<profiles, clock>>
         ELSE /\ IF c.snap.exists
                   THEN UpdateDoc(u, SaveUpdate(profiles[u], c.arg, value, c.snap.status))
                   ELSE SetDoc(u, NewProfile(OnlySection(c.arg, value)))
              /\ last' = done("ok")
              /\ proc' = [proc EXCEPT ![p] = Idle]

UpdatePersonalDetails(p, actor, storeOk) == SaveBegin(p, actor, "personalDetails", storeOk)
UpdateDriving(p, actor, storeOk) == SaveBegin(p, actor, "driving", storeOk)
UpdateMedicalQualifications(p, actor, storeOk) ==
  SaveBegin(p, actor, "medicalQualifications", storeOk)

\* ------------------------------------------------------------ submitProfile
\* `if (!agreedToTerms)`, line 246.
TermsRefused_Never(agreedToTerms) == FALSE
TermsRefused(agreedToTerms) == ~agreedToTerms

\* submitProfile(agreedToTerms), lines 240-258, up to the result of
\* `await getDoc(profileRef)`.
SubmitBegin(p, actor, agreedToTerms, storeOk) ==
  LET done(result, reads) ==
        Completed("submitProfile", actor, actor, result,
                  [agreedToTerms |-> agreedToTerms], NoSnap, reads, 0)
  IN
  /\ proc[p].pc = "idle"
  /\ UNCHANGED <<profiles, clock>>
  /\ IF NotSignedIn(actor)
       THEN last' = done("NotAuthenticated", 0) /\ UNCHANGED proc
       ELSE IF TermsRefused(agreedToTerms)
         THEN last' = done("TermsNotAccepted", 0) /\ UNCHANGED proc
         ELSE IF ~storeOk
           THEN last' = done("StoreError", 1) /\ UNCHANGED proc
           ELSE IF ~profiles[actor].exists
             THEN last' = done("ProfileMissing", 1) /\ UNCHANGED proc
             ELSE /\ proc' = [proc EXCEPT ![p] =
                                InFlight("submit", actor, agreedToTerms, profiles[actor])]
                  /\ UNCHANGED last

\* A submission that empties the reviewer's notes.
SubmitUpdate_ClearsNotes(d, agreedToTerms, now) ==
  [d EXCEPT !.submission.agreedToTerms = agreedToTerms,
            !.submission.submittedAt = now,
            !.adminUse.status = "pending",
            !.adminUse.notes = EmptyString]

\* A submission that leaves submittedAt as it was.
SubmitUpdate_NoTimestamp(d, agreedToTerms, now) ==
  [d EXCEPT !.submission.agreedToTerms = agreedToTerms,
            !.adminUse.status = "pending"]

\* The merged document of submitProfile's updateDoc, lines 260-264.
SubmitUpdate(d, agreedToTerms, now) ==
  [d EXCEPT !.submission.agreedToTerms = agreedToTerms,
            !.submission.submittedAt = now,
            !.adminUse.status = "pending"]

\* A submission whose write, when the store fails, has already set the status.
SubmitWrite_HalfApplied(p, storeOk) ==
  LET c == proc[p]
      u == c.actor
      done(result) ==
        Completed("submitProfile", u, u, result, [agreedToTerms |-> c.arg], c.snap, 1, 1)
  IN
  /\ c.pc = "submit"
  /\ proc' = [proc EXCEPT ![p] = Idle]
  /\ IF ~profiles[u].exists
       THEN last' = done("NotFound") /\ UNCHANGED <<profiles, clock>>
       ELSE IF ~storeOk
         THEN /\ UpdateDoc(u, [profiles[u] EXCEPT !.adminUse.status = "pending"])
              /\ last' = done("StoreError")
         ELSE /\ UpdateDoc(u, SubmitUpdate(profiles[u], c.arg, ServerTimestamp))
              /\ last' = done("ok")

\* `await updateDoc(...)`, lines 260-264.
SubmitWrite(p, storeOk) ==
  LET c == proc[p]
      u == c.actor
      done(result) ==
        Completed("submitProfile", u, u, result, [agreedToTerms |-> c.arg], c.snap, 1, 1)
  IN
  /\ c.pc = "submit"
  /\ IF ~storeOk
       THEN /\ last' = done("StoreError")
            /\ proc' = [proc EXCEPT ![p] = Idle]
            /\ UNCHANGED <<profiles, clock>>
       ELSE IF ~profiles[u].exists
         THEN /\ last' = done("NotFound")
              /\ proc' = [proc EXCEPT ![p] = Idle]
              /\ UNCHANGED <<profiles, clock>>
         ELSE /\ UpdateDoc(u, SubmitUpdate(profiles[u], c.arg, ServerTimestamp))
              /\ last' = done("ok")
              /\ proc' = [proc EXCEPT ![p] = Idle]

\* A review that puts its notes behind the notes it finds.
ReviewUpdate_AppendsNotes(d, status, adminUid, notes, now) ==
  [d EXCEPT !.adminUse.status = status,
            !.adminUse.approvedBy = adminUid,
            !.adminUse.notes = d.adminUse.notes \o notes,
            !.adminUse.reviewedAt = now]

\* ------------------------------------------------------------ reviewProfile
\* The merged document of reviewProfile's updateDoc, lines 289-294.
ReviewUpdate(d, status, adminUid, notes, now) ==
  [d EXCEPT !.adminUse.status = status,
            !.adminUse.approvedBy = adminUid,
            !.adminUse.notes = notes,
            !.adminUse.reviewedAt = now]

\* reviewProfile(userId, status, notes), lines 280-300: one store call.
ReviewProfile(admin, userId, status, notes, storeOk) ==
  LET done(result, writes) ==
        Completed("reviewProfile", admin, userId, result,
                  [status |-> status, notes |-> notes], NoSnap, 0, writes)
  IN
  IF NotSignedIn(admin)
    THEN last' = done("NotAuthenticated", 0) /\ UNCHANGED <<profiles, clock, proc>>
    ELSE IF ~storeOk
      THEN last' = done("StoreError", 1) /\ UNCHANGED <<profiles, clock, proc>>
      ELSE IF ~profiles[userId].exists
        THEN last' = done("NotFound", 1) /\ UNCHANGED <<profiles, clock, proc>>
        ELSE /\ UpdateDoc(userId, ReviewUpdate(profiles[userId], status, admin, notes,
                                               ServerTimestamp))
             /\ last' = done("ok", 1)
             /\ UNCHANGED proc

\* -------------------------------------------------- updateAndResubmitProfile
\* updateAndResubmitProfile(updatedProfile), lines 307-317: up to the result
\* of `await getDoc(profileRef)`.
ResubmitBegin(p, actor, storeOk) ==
  LET done(result, reads) ==
        Completed("updateAndResubmitProfile", actor, actor, result, NoArgs,
                  NoSnap, reads, 0)
  IN
  /\ proc[p].pc = "idle"
  /\ UNCHANGED <<profiles, clock>>
  /\ IF NotSignedIn(actor)
       THEN last' = done("NotAuthenticated", 0) /\ UNCHANGED proc
       ELSE IF ~storeOk
         THEN last' = done("StoreError", 1) /\ UNCHANGED proc
         ELSE /\ proc' = [proc EXCEPT ![p] =
                            InFlight("resubmit", actor, "", profiles[actor])]
              /\ UNCHANGED last

\* Notes that put the generated line straight after the notes read.
AdminNotes_NoSeparator(snap, explicitNotes, date) ==
  IF snap.exists
    THEN IF Truthy(explicitNotes) THEN explicitNotes
         ELSE snap.notes \o UpdateLine(ToLocaleDateString(date))
    ELSE EmptyString

\* adminNotes as lines 318-348 compute it from the document getDoc returned
\* (snap); explicitNotes is updatedProfile.adminUse.notes, date is new Date().
AdminNotes(snap, explicitNotes, date) ==
  IF snap.exists
    THEN IF Truthy(snap.notes)
           THEN IF Truthy(explicitNotes)
                  THEN explicitNotes
                  ELSE snap.notes \o <<"\n\n">>
                         \o UpdateLine(ToLocaleDateString(date))
           ELSE UpdateLine(ToLocaleDateString(date))
    ELSE EmptyString

\* A resubmission that leaves the status as it was.
ResubmitUpdate_KeepsStatus(d, updatedProfile, adminNotes, now) ==
  [d EXCEPT !.personalDetails = Or(updatedProfile.personalDetails, EmptyObject),
            !.driving = Or(updatedProfile.driving, EmptyObject),
            !.medicalQualifications = Or(updatedProfile.medicalQualifications, EmptyObject),
            !.submission.submittedAt = now,
            !.adminUse.notes = adminNotes]

\* A resubmission that leaves a section alone when updatedProfile has none.
ResubmitUpdate_KeepsOmitted(d, updatedProfile, adminNotes, now) ==
  [d EXCEPT !.personalDetails = Or(updatedProfile.personalDetails, d.personalDetails),
            !.driving = Or(updatedProfile.driving, d.driving),
            !.medicalQualifications = Or(updatedProfile.medicalQualifications,
                                         d.medicalQualifications),
            !.submission.submittedAt = now,
            !.adminUse.status = "pending",
            !.adminUse.notes = adminNotes]

\* The merged document of updateData, lines 351-359.
ResubmitUpdate(d, updatedProfile, adminNotes, now) ==
  [d EXCEPT !.personalDetails = Or(updatedProfile.personalDetails, EmptyObject),
            !.driving = Or(updatedProfile.driving, EmptyObject),
            !.medicalQualifications = Or(updatedProfile.medicalQualifications, EmptyObject),
            !.submission.submittedAt = now,
            !.adminUse.status = "pending",
            !.adminUse.notes = adminNotes]

\* A resubmission that writes with set-and-merge: it creates the document
\* when there is none.
ResubmitWrite_Creates(p, updatedProfile, date, storeOk) ==
  LET c == proc[p]
      u == c.actor
      adminNotes == AdminNotes(c.snap, updatedProfile.notes, date)
      base == IF profiles[u].exists THEN profiles[u]
              ELSE NewProfile([s \in Sections |-> Undefined])
  IN
  /\ c.pc = "resubmit"
  /\ Len(adminNotes) <= MaxNotesLen
  /\ SetDoc(u, ResubmitUpdate(base, updatedProfile, adminNotes, ServerTimestamp))
  /\ last' = Completed("updateAndResubmitProfile", u, u, "ok",
                       [updatedProfile |-> updatedProfile, date |-> date], c.snap, 1, 1)
  /\ proc' = [proc EXCEPT ![p] = Idle]

\* The continuation after the read, lines 318-361: the notes, updateData and
\* `await updateDoc(profileRef, updateData)`. updatedProfile is the
\* function's argument, which the code first uses here.
ResubmitWrite(p, updatedProfile, date, storeOk) ==
  LET c == proc[p]
      u == c.actor
      adminNotes == AdminNotes(c.snap, updatedProfile.notes, date)
      done(result) ==
        Completed("updateAndResubmitProfile", u, u, result,
                  [updatedProfile |-> updatedProfile, date |-> date], c.snap, 1, 1)
  IN
  /\ c.pc = "resubmit"
  /\ Len(adminNotes) <= MaxNotesLen
  /\ IF ~storeOk
       THEN /\ last' = done("StoreError")
            /\ proc' = [proc EXCEPT ![p] = Idle]
            /\ UNCHANGED <<profiles, clock>>
       ELSE IF ~profiles[u].exists
         THEN /\ last' = done("NotFound")
              /\ proc' = [proc EXCEPT ![p] = Idle]
              /\ UNCHANGED <<profiles, clock>>
         ELSE /\ UpdateDoc(u, ResubmitUpdate(profiles[u], updatedProfile, adminNotes,
                                             ServerTimestamp))
              /\ last' = done("ok")
              /\ proc' = [proc EXCEPT ![p] = Idle]

\* ======================================================================
\* teams-service.js
\* ======================================================================
TeamIds == {"t1", "t2"}
\* teamData.name arguments: characters; missing, undefined and '' are the
\* empty string.
NameArgs == { EmptyString, <<" ">>, <<" ", "A", " ">>, <<"B">> }
DescriptionArgs == { <<"d">> }

\* A team id that addDoc has never handed out, one whose document exists,
\* one whose document was deleted.
NeverCreated == [exists |-> FALSE, deleted |-> FALSE]
DeletedTeam == [exists |-> FALSE, deleted |-> TRUE]
\* A user id without a document in 'users'.
NoUserDoc == [exists |-> FALSE]
\* A user document: hasTeams says whether it has a teams field at all.
UserDoc(hasTeams, arr) == [exists |-> TRUE, hasTeams |-> hasTeams, teams |-> arr]

Range(seq) == { seq[i] : i \in DOMAIN seq }
\* The membership set of user u: the elements of its teams array.
Membership(u) == IF users[u].exists THEN Range(users[u].teams) ELSE {}

IsSpace(ch) == ch = " "
RECURSIVE TrimStart(_)
TrimStart(str) ==
  IF str # << >> /\ IsSpace(Head(str)) THEN TrimStart(Tail(str)) ELSE str
RECURSIVE TrimEnd(_)
TrimEnd(str) ==
  IF str # << >> /\ IsSpace(str[Len(str)])
    THEN TrimEnd(SubSeq(str, 1, Len(str) - 1))
    ELSE str
\* String.prototype.trim
Trim(str) == TrimEnd(TrimStart(str))

\* An arrayUnion that appends whether or not the element is there.
ArrayUnion_Append(arr, t) == Append(arr, t)
\* arrayUnion(t) applied to an array (a missing field counts as []).
ArrayUnion(arr, t) == IF t \in Range(arr) THEN arr ELSE Append(arr, t)
\* arrayRemove(t) applied to an array: every occurrence goes.
ArrayRemove(arr, t) == SelectSeq(arr, LAMBDA x : x # t)

\* The record of the store call applied last: before is the user's teams
\* array it found.
Applied(op, userId, teamId, result) ==
  [op |-> op, user |-> userId, team |-> teamId, result |-> result,
   before |-> IF userId \in UserIds /\ users[userId].exists
                THEN users[userId].teams ELSE << >>,
   existed |-> userId \in UserIds /\ users[userId].exists]

\* The same record for a call on a team document: name is teamData.name.
AppliedToTeam(op, teamId, name, result) ==
  [op |-> op, user |-> "", team |-> teamId, result |-> result,
   before |-> << >>, existed |-> FALSE, name |-> name]

\* `!teamData.name || teamData.name.trim() === ''`, lines 254 and 283.
NameMissing_OnlyAbsent(name) == name = EmptyString
NameMissing(name) == name = EmptyString \/ Trim(name) = EmptyString

\* createTeam(teamData), lines 251-271: validation, then addDoc with a fresh id.
CreateTeam(id, name, description, storeOk) ==
  /\ teams[id] = NeverCreated
  /\ UNCHANGED <<users, del>>
  /\ IF NameMissing(name)
       THEN /\ tlast' = AppliedToTeam("createTeam", id, name, "ValidationError")
            /\ UNCHANGED teams
       ELSE IF ~storeOk
         THEN /\ tlast' = AppliedToTeam("createTeam", id, name, "StoreError")
              /\ UNCHANGED teams
         ELSE /\ teams' = [teams EXCEPT ![id] =
                             [exists |-> TRUE, deleted |-> FALSE, name |-> Trim(name),
                              description |-> description,
                              createdAt |-> Timestamp(clock),
                              updatedAt |-> Timestamp(clock)]]
              /\ tlast' = AppliedToTeam("createTeam", id, name, "ok")

\* updateTeam(teamId, teamData), lines 280-298: validation, then updateDoc,
\* which rejects when the team document does not exist.
UpdateTeam(teamId, name, description, storeOk) ==
  /\ UNCHANGED <<users, del>>
  /\ IF NameMissing(name)
       THEN /\ tlast' = AppliedToTeam("updateTeam", teamId, name, "ValidationError")
            /\ UNCHANGED teams
       ELSE IF ~storeOk
         THEN /\ tlast' = AppliedToTeam("updateTeam", teamId, name, "StoreError")
              /\ UNCHANGED teams
         ELSE IF ~teams[teamId].exists
           THEN /\ tlast' = AppliedToTeam("updateTeam", teamId, name, "NotFound")
                /\ UNCHANGED teams
           ELSE /\ teams' = [teams EXCEPT ![teamId].name = Trim(name),
                                          ![teamId].description = description,
                                          ![teamId].updatedAt = Timestamp(clock)]
                /\ tlast' = AppliedToTeam("updateTeam", teamId, name, "ok")

\* addUserToTeam(userId, teamId), lines 378-388: updateDoc with arrayUnion;
\* updateDoc rejects when the user document does not exist.
AddUserToTeam(userId, teamId, storeOk) ==
  /\ UNCHANGED <<teams, del>>
  /\ IF ~storeOk
       THEN tlast' = Applied("addUserToTeam", userId, teamId, "StoreError") /\ UNCHANGED users
       ELSE IF ~users[userId].exists
         THEN tlast' = Applied("addUserToTeam", userId, teamId, "NotFound")
              /\ UNCHANGED users
         ELSE /\ users' = [users EXCEPT ![userId] =
                             UserDoc(TRUE, ArrayUnion(users[userId].teams, teamId))]
              /\ tlast' = Applied("addUserToTeam", userId, teamId, "ok")

\* removeUserFromTeam(userId, teamId), lines 397-407: updateDoc with arrayRemove.
RemoveUserFromTeam(userId, teamId, storeOk) ==
  /\ UNCHANGED <<teams, del>>
  /\ IF ~storeOk
       THEN tlast' = Applied("removeUserFromTeam", userId, teamId, "StoreError")
            /\ UNCHANGED users
       ELSE IF ~users[userId].exists
         THEN tlast' = Applied("removeUserFromTeam", userId, teamId, "NotFound")
              /\ UNCHANGED users
         ELSE /\ users' = [users EXCEPT ![userId] =
                             UserDoc(TRUE, ArrayRemove(users[userId].teams, teamId))]
              /\ tlast' = Applied("removeUserFromTeam", userId, teamId, "ok")

\* ---------------------------------------------------------------- deleteTeam
\* No deleteTeam call yet.
NoDelete == [pc |-> "idle"]
\* The settled state of Promise.all(updatePromises): what the caller gets.
Running == [kind |-> "running"]
Resolved == [kind |-> "resolved"]
\* A rejection carries the error of the member update that failed first.
Rejected(userId) == [kind |-> "rejected", error |-> userId]

\* deleteTeam(teamId), line 310: `await deleteDoc(doc(db,'teams',teamId))`.
\* A call starts once the previous one has returned and its updates settled.
DeleteTeamBegin(teamId, storeOk) ==
  /\ \/ del.pc = "idle"
     \/ del.pc = "done" /\ del.pending = {}
  /\ UNCHANGED users
  /\ tlast' = Applied("deleteTeam.deleteDoc", "", teamId, IF storeOk THEN "ok" ELSE "StoreError")
  /\ IF ~storeOk
       THEN /\ del' = [pc |-> "done", team |-> teamId, members |-> {}, pending |-> {},
                       fulfilled |-> {}, rejected |-> {}, outcome |-> [kind |-> "error"]]
            /\ UNCHANGED teams
       ELSE /\ teams' = [teams EXCEPT ![teamId] =
                           IF teams[teamId] = NeverCreated THEN NeverCreated ELSE DeletedTeam]
            /\ del' = [pc |-> "query", team |-> teamId, members |-> {}, pending |-> {},
                       fulfilled |-> {}, rejected |-> {}, outcome |-> Running]

\* A query after which the call returns without joining the updates it issued.
DeleteTeamQuery_NoJoin(storeOk) ==
  LET found == { u \in UserIds : del.team \in Membership(u) } IN
  /\ del.pc = "query"
  /\ UNCHANGED <<teams, users>>
  /\ tlast' = Applied("deleteTeam.getDocs", "", del.team, IF storeOk THEN "ok" ELSE "StoreError")
  /\ IF ~storeOk
       THEN del' = [del EXCEPT !.pc = "done", !.outcome = [kind |-> "error"]]
       ELSE del' = [del EXCEPT !.pc = "done", !.outcome = Resolved,
                               !.members = found, !.pending = found]

\* Lines 313-326: the array-contains query and, for each user it returns, an
\* updateDoc(arrayRemove) issued at once; Promise.all of none resolves.
DeleteTeamQuery(storeOk) ==
  LET found == { u \in UserIds : del.team \in Membership(u) } IN
  /\ del.pc = "query"
  /\ UNCHANGED <<teams, users>>
  /\ tlast' = Applied("deleteTeam.getDocs", "", del.team, IF storeOk THEN "ok" ELSE "StoreError")
  /\ IF ~storeOk
       THEN del' = [del EXCEPT !.pc = "done", !.outcome = [kind |-> "error"]]
       ELSE IF found = {}
         THEN del' = [del EXCEPT !.pc = "done", !.outcome = Resolved]
         ELSE del' = [del EXCEPT !.pc = "cascade", !.members = found, !.pending = found]

\* A fan-out whose first failure drops the updates still pending.
Settle_AbortOnFailure(d, userId, ok) ==
  IF ok
    THEN [d EXCEPT !.pending = d.pending \ {userId},
                   !.fulfilled = d.fulfilled \cup {userId},
                   !.outcome = IF d.pending = {userId} THEN Resolved ELSE Running,
                   !.pc = IF d.pending = {userId} THEN "done" ELSE "cascade"]
    ELSE [d EXCEPT !.pending = {}, !.rejected = d.rejected \cup {userId},
                   !.outcome = Rejected(userId), !.pc = "done"]

\* What settling one member update makes of the call: the promise of userId
\* is fulfilled or rejected; Promise.all rejects with the first rejection
\* and resolves when every promise is fulfilled; the other promises stay
\* pending and settle on their own.
Settle(d, userId, ok) ==
  LET pending == d.pending \ {userId}
      fulfilled == IF ok THEN d.fulfilled \cup {userId} ELSE d.fulfilled
      rejected == IF ok THEN d.rejected ELSE d.rejected \cup {userId}
      outcome == IF d.outcome # Running THEN d.outcome
                 ELSE IF ~ok THEN Rejected(userId)
                 ELSE IF pending = {} THEN Resolved
                 ELSE Running
  IN [d EXCEPT !.pending = pending, !.fulfilled = fulfilled, !.rejected = rejected,
               !.outcome = outcome,
               !.pc = IF outcome = Running THEN "cascade" ELSE "done"]

\* One of the member updates of lines 319-323 is applied or fails.
DeleteTeamMemberUpdate(userId, storeOk) ==
  /\ del.pc \in {"cascade", "done"}
  /\ userId \in del.pending
  /\ UNCHANGED teams
  /\ IF storeOk /\ users[userId].exists
       THEN /\ users' = [users EXCEPT ![userId] =
                           UserDoc(TRUE, ArrayRemove(users[userId].teams, del.team))]
            /\ tlast' = Applied("deleteTeam.updateDoc", userId, del.team, "ok")
            /\ del' = Settle(del, userId, TRUE)
       ELSE /\ UNCHANGED users
            /\ tlast' = Applied("deleteTeam.updateDoc", userId, del.team, "StoreError")
            /\ del' = Settle(del, userId, FALSE)

\* -------------------------------------------------------------- getUserTeams
\* No getUserTeams call yet.
NoCall == [pc |-> "idle"]

\* What getTeamById returns for a document that exists, lines 232-235:
\* { id: teamSnap.id, ...teamSnap.data() }.
TeamRecord(id) ==
  [id |-> id, name |-> teams[id].name, description |-> teams[id].description,
   createdAt |-> teams[id].createdAt, updatedAt |-> teams[id].updatedAt]

\* The place of a character in the collation order of localeCompare.
CharRank(ch) == CASE ch = " " -> 0 [] ch = "A" -> 1 [] ch = "B" -> 2
\* a.localeCompare(b) < 0, a and b strings of these characters.
RECURSIVE ComesBefore(_, _)
ComesBefore(a, b) ==
  IF b = << >> THEN FALSE
  ELSE IF a = << >> THEN TRUE
  ELSE IF Head(a) # Head(b) THEN CharRank(Head(a)) < CharRank(Head(b))
  ELSE ComesBefore(Tail(a), Tail(b))

\* rec put into a list sorted by name, behind the records of the same name.
RECURSIVE InsertByName(_, _)
InsertByName(rec, sorted) ==
  IF sorted = << >> THEN <<rec>>
  ELSE IF ComesBefore(rec.name, Head(sorted).name) THEN <<rec>> \o sorted
  ELSE <<Head(sorted)>> \o InsertByName(rec, Tail(sorted))

\* A sort that leaves the list in the order of the ids.
SortByName_AsFound(recs) == recs
\* teams.sort((a, b) => a.name.localeCompare(b.name)), line 450; the sort
\* is stable.
RECURSIVE SortByName(_)
SortByName(recs) ==
  IF recs = << >> THEN << >>
  ELSE InsertByName(recs[Len(recs)], SortByName(SubSeq(recs, 1, Len(recs) - 1)))

\* The call record once the function has returned result or thrown.
Returned(c, outcome, result) ==
  [pc |-> "done", user |-> c.user, outcome |-> outcome, result |-> result,
   overlapped |-> c.overlapped]

\* getUserTeams(userId), lines 415-439: `await getDoc(userRef)` and what the
\* function makes of the document.
GetUserTeamsBegin(userId, storeOk) ==
  LET c == [pc |-> "read", user |-> userId, overlapped |-> FALSE] IN
  /\ call.pc \in {"idle", "done"}
  /\ UNCHANGED <<teams, users, del, tlast>>
  /\ IF ~storeOk THEN call' = Returned(c, "StoreError", << >>)
     ELSE IF ~users[userId].exists THEN call' = Returned(c, "ok", << >>)
     ELSE IF ~users[userId].hasTeams
       THEN call' = [pc |-> "initialise", user |-> userId, overlapped |-> FALSE]
     ELSE IF users[userId].teams = << >> THEN call' = Returned(c, "ok", << >>)
     ELSE call' = [pc |-> "resolve", user |-> userId, overlapped |-> FALSE,
                   teamIds |-> users[userId].teams, found |-> << >>]

\* Lines 428-433: `await updateDoc(userRef, { teams: [] })`, return [].
GetUserTeamsInitialise(storeOk) ==
  LET u == call.user IN
  /\ call.pc = "initialise"
  /\ UNCHANGED <<teams, del>>
  /\ IF storeOk /\ users[u].exists
       THEN /\ users' = [users EXCEPT ![u] = UserDoc(TRUE, << >>)]
            /\ tlast' = Applied("getUserTeams.updateDoc", u, "", "ok")
            /\ call' = Returned(call, "ok", << >>)
       ELSE /\ UNCHANGED users
            /\ tlast' = Applied("getUserTeams.updateDoc", u, "", "StoreError")
            /\ call' = Returned(call, "StoreError", << >>)

\* One turn of the loop of lines 442-447, `await getTeamById(teamId, db)`,
\* and after the last turn the sort and the return of lines 450-452.
GetUserTeamsResolve(storeOk) ==
  LET id == Head(call.teamIds)
      rest == Tail(call.teamIds)
      found == IF teams[id].exists THEN Append(call.found, TeamRecord(id))
               ELSE call.found
  IN
  /\ call.pc = "resolve"
  /\ UNCHANGED <<teams, users, del, tlast>>
  /\ IF ~storeOk THEN call' = Returned(call, "StoreError", << >>)
     ELSE IF rest = << >> THEN call' = Returned(call, "ok", SortByName(found))
     ELSE call' = [call EXCEPT !.teamIds = rest, !.found = found]

\* ======================================================================
\* Cloud Functions: stripeWebhook
\* ======================================================================
ApplicantIds == {"a1", "a2"}
HookSlots == {"h1", "h2"}
\* The statuses of the applicant documents: awaiting payment, paid, any other.
ApplicantStatuses == {"approved_to_pay", "paid", "pending"}
\* The email field of the applicant documents, character by character.
ApplicantEmails == { <<"a">>, <<"A">>, <<"b">> }
CheckoutCompleted == "checkout.session.completed"

\* An applicant document; payment holds the fields the webhook writes.
NotPaid == [recorded |-> FALSE]
Applicant(email, status) == [email |-> email, status |-> status, payment |-> NotPaid]

\* String.prototype.toLowerCase on the characters of the emails.
LowerChar(ch) == IF ch = "A" THEN "a" ELSE IF ch = "B" THEN "b" ELSE ch
ToLowerCase(str) == [i \in DOMAIN str |-> LowerChar(str[i])]

\* req.body: type is event.type; hasObject is whether event.data.object is
\* there; the other fields are those of the session. A missing email is the
\* empty string, a missing payment_intent or currency is undefined, a
\* missing amount_total is 0.
Event(type, hasObject, detailsEmail, customerEmail, id, paymentIntent, amountTotal, currency) ==
  [type |-> type, hasObject |-> hasObject, detailsEmail |-> detailsEmail,
   customerEmail |-> customerEmail, id |-> id, paymentIntent |-> paymentIntent,
   amountTotal |-> amountTotal, currency |-> currency]

\* session.customer_details?.email || session.customer_email, lines 39-40.
CustomerEmail(event) ==
  IF Truthy(event.detailsEmail) THEN event.detailsEmail ELSE event.customerEmail
\* customerEmail.toLowerCase().trim(), line 47.
EmailLower(event) == Trim(ToLowerCase(CustomerEmail(event)))

\* The fields of batch.update, lines 91-98.
PaidUpdate(doc, session, now) ==
  [doc EXCEPT !.status = "paid",
              !.payment = [recorded |-> TRUE,
                           stripePaymentId |-> Or(session.paymentIntent, session.id),
                           stripeSessionId |-> session.id,
                           paidAt |-> now,
                           paidAmount |-> IF session.amountTotal # 0
                                            THEN session.amountTotal \div 100 ELSE 30,
                           paymentCurrency |-> Or(session.currency, "gbp")]]

\* `Updated ${updatedCount} applicant(s)`, line 107.
UpdatedBody(updatedCount) ==
  CASE updatedCount = 0 -> "Updated 0 applicant(s)"
    [] updatedCount = 1 -> "Updated 1 applicant(s)"
    [] updatedCount = 2 -> "Updated 2 applicant(s)"

NoRequest == [pc |-> "idle"]
NoResponse == [code |-> 0, body |-> "", method |-> "", event |-> [type |-> ""]]
\* res.status(code).send(body) for the request of method and event.
Response(code, body, method, event) ==
  [code |-> code, body |-> body, method |-> method, event |-> event]

\* Lines 42-45: the response to a completed checkout without customer email.
MissingEmailResponse(method, event) ==
  Response(400, "No customer email found", method, event)

\* stripeWebhook, lines 21-55, up to `await applicantsRef...get()`: the
\* method check, the event type, the customer email. Reading a field of a
\* missing event.data.object throws, which line 113 catches.
WebhookReceive(h, method, event) ==
  /\ hook[h].pc = "idle"
  /\ UNCHANGED <<applicants, clock>>
  /\ IF method # "POST"
       THEN resp' = Response(405, "Method Not Allowed", method, event) /\ UNCHANGED hook
     ELSE IF event.type # CheckoutCompleted
       THEN resp' = Response(200, "Event received", method, event) /\ UNCHANGED hook
     ELSE IF ~event.hasObject
       THEN resp' = Response(200, "Error processed", method, event) /\ UNCHANGED hook
     ELSE IF ~Truthy(CustomerEmail(event))
       THEN resp' = MissingEmailResponse(method, event) /\ UNCHANGED hook
     ELSE /\ hook' = [hook EXCEPT ![h] = [pc |-> "query", method |-> method,
                                         event |-> event, snapshot |-> {}]]
          /\ UNCHANGED resp

\* A query on the email alone.
WebhookQuery_AnyStatus(h, storeOk) ==
  LET c == hook[h]
      snapshot == { a \in ApplicantIds : applicants[a].email = EmailLower(c.event) }
  IN
  /\ c.pc = "query"
  /\ UNCHANGED <<applicants, clock>>
  /\ IF ~storeOk
       THEN /\ resp' = Response(200, "Error processed", c.method, c.event)
            /\ hook' = [hook EXCEPT ![h] = NoRequest]
       ELSE /\ hook' = [hook EXCEPT ![h] =
                          [c EXCEPT !.pc = IF snapshot = {} THEN "fallback" ELSE "commit",
                                    !.snapshot = snapshot]]
            /\ UNCHANGED resp

\* Lines 52-57: the result of the query on email and status.
WebhookQuery(h, storeOk) ==
  LET c == hook[h]
      snapshot == { a \in ApplicantIds : /\ applicants[a].email = EmailLower(c.event)
                                         /\ applicants[a].status = "approved_to_pay" }
  IN
  /\ c.pc = "query"
  /\ UNCHANGED <<applicants, clock>>
  /\ IF ~storeOk
       THEN /\ resp' = Response(200, "Error processed", c.method, c.event)
            /\ hook' = [hook EXCEPT ![h] = NoRequest]
       ELSE /\ hook' = [hook EXCEPT ![h] =
                          [c EXCEPT !.pc = IF snapshot = {} THEN "fallback" ELSE "commit",
                                    !.snapshot = snapshot]]
            /\ UNCHANGED resp

\* Lines 58-107 when the snapshot was empty: the query on email alone, the
\* search for an applicant awaiting payment, and, when there is one, the
\* batch over the (empty) snapshot, which is not committed.
WebhookFallbackQuery(h, storeOk) ==
  LET c == hook[h]
      allMatching == { a \in ApplicantIds : applicants[a].email = EmailLower(c.event) }
      body == IF allMatching = {} THEN "No matching applicant found"
              ELSE IF \A a \in allMatching : applicants[a].status # "approved_to_pay"
                THEN "Applicant not awaiting payment"
              ELSE UpdatedBody(0)
  IN
  /\ c.pc = "fallback"
  /\ UNCHANGED <<applicants, clock>>
  /\ hook' = [hook EXCEPT ![h] = NoRequest]
  /\ resp' = Response(200, IF storeOk THEN body ELSE "Error processed", c.method, c.event)

\* Lines 102-107: `await batch.commit()` of the updates of the snapshot.
WebhookCommit(h, storeOk) ==
  LET c == hook[h] IN
  /\ c.pc = "commit"
  /\ UNCHANGED clock
  /\ hook' = [hook EXCEPT ![h] = NoRequest]
  /\ IF ~storeOk
       THEN /\ resp' = Response(200, "Error processed", c.method, c.event)
            /\ UNCHANGED applicants
       ELSE /\ resp' = Response(200, UpdatedBody(Cardinality(c.snapshot)), c.method, c.event)
            /\ applicants' = [a \in ApplicantIds |->
                                IF a \in c.snapshot
                                  THEN PaidUpdate(applicants[a], c.event, Timestamp(clock))
                                  ELSE applicants[a]]

\* ======================================================================
\* Cloud Functions: request2FAReset, confirm2FAReset
\* ======================================================================
\* The ids add() gives the token documents, the values of
\* crypto.randomBytes(32).toString("hex"), the slots of the calls.
TokenDocIds == {"k1", "k2"}
TokenValues == {"tokA", "tokB"}
ResetSlots == {"r1", "c1", "c2"}

\* The email and 2FA fields of a user document.
Account(email, has2FA) ==
  [exists |-> TRUE, email |-> email, has2FA |-> has2FA, hasSecret |-> has2FA,
   twoFactorDisabledAt |-> NullTimestamp, twoFactorDisabledReason |-> ""]
\* A document id add() has not handed out yet; a document that was deleted
\* (token is the value it held).
NoTokenDoc == [exists |-> FALSE, deleted |-> FALSE]
DeletedTokenDoc(token) == [exists |-> FALSE, deleted |-> TRUE, token |-> token]
\* The document of lines 162-169; expiresAt is checked against the time of
\* the confirming call, which the caller of ConfirmQuery supplies.
TokenDoc(token, userId, email, now) ==
  [exists |-> TRUE, deleted |-> FALSE, token |-> token, userId |-> userId,
   email |-> email, createdAt |-> now, used |-> FALSE]

NoReset == [pc |-> "idle"]
\* What a call returned or threw; confirmed collects the tokens for which
\* a confirm2FAReset call has returned success so far.
ResetReturned(op, slot, arg, result) ==
  [op |-> op, slot |-> slot, arg |-> arg, result |-> result,
   confirmed |-> IF op = "confirm2FAReset" /\ result = "success"
                   THEN rlast.confirmed \cup {Trim(arg)} ELSE rlast.confirmed]

\* email.includes("@")
RECURSIVE Includes(_, _)
Includes(str, ch) ==
  IF str = << >> THEN FALSE ELSE Head(str) = ch \/ Includes(Tail(str), ch)

\* request2FAReset(data), lines 124-146: data.email?.trim().toLowerCase(),
\* the validation, and the result of the query on email and has2FA (limit 1).
RequestQuery(r, emailArg, storeOk) ==
  LET email == ToLowerCase(Trim(emailArg))
      found == { u \in UserIds : /\ accounts[u].exists /\ accounts[u].email = email
                                 /\ accounts[u].has2FA }
      done(result) == ResetReturned("request2FAReset", r, emailArg, result)
  IN
  /\ reset[r].pc = "idle"
  /\ UNCHANGED <<accounts, tokens, mail, clock>>
  /\ IF email = EmptyString \/ ~Includes(email, "@")
       THEN rlast' = done("invalid-argument") /\ UNCHANGED reset
     ELSE IF ~storeOk THEN rlast' = done("internal") /\ UNCHANGED reset
     ELSE IF found = {} THEN rlast' = done("success") /\ UNCHANGED reset
     ELSE /\ \E u \in found :
               reset' = [reset EXCEPT ![r] = [pc |-> "addToken", arg |-> emailArg,
                                             email |-> email, userId |-> u]]
          /\ UNCHANGED rlast

\* Lines 152-169: the token and `await db.collection("2faResetTokens").add`.
\* The token is a value no document holds, the document id one never used.
RequestAddToken(r, k, v, storeOk) ==
  LET c == reset[r] IN
  /\ c.pc = "addToken"
  /\ tokens[k] = NoTokenDoc
  /\ \A d \in TokenDocIds : tokens[d] # NoTokenDoc => tokens[d].token # <<v>>
  /\ UNCHANGED <<accounts, mail, clock>>
  /\ IF ~storeOk
       THEN /\ rlast' = ResetReturned("request2FAReset", r, c.arg, "internal")
            /\ reset' = [reset EXCEPT ![r] = NoReset]
            /\ UNCHANGED tokens
       ELSE /\ tokens' = [tokens EXCEPT ![k] =
                            TokenDoc(<<v>>, c.userId, c.email, Timestamp(clock))]
            /\ reset' = [reset EXCEPT ![r] = [pc |-> "addMail", arg |-> c.arg,
                                              email |-> c.email, userId |-> c.userId,
                                              token |-> <<v>>]]
            /\ UNCHANGED rlast

\* Lines 171-203: the reset link and `await db.collection("mail").add`.
RequestAddMail(r, storeOk) ==
  LET c == reset[r] IN
  /\ c.pc = "addMail"
  /\ UNCHANGED <<accounts, tokens, clock>>
  /\ reset' = [reset EXCEPT ![r] = NoReset]
  /\ IF ~storeOk
       THEN /\ rlast' = ResetReturned("request2FAReset", r, c.arg, "internal")
            /\ UNCHANGED mail
       ELSE /\ mail' = mail \cup {[to |-> c.email, token |-> c.token]}
            /\ rlast' = ResetReturned("request2FAReset", r, c.arg, "success")

\* confirm2FAReset(data), lines 217-264: data.token?.trim(), the validation,
\* the result of the query on token (limit 1) and the checks of used and
\* expiresAt; expired is whether new Date() is past expiresAt.
ConfirmQuery(c, tokenArg, storeOk, expired) ==
  LET token == Trim(tokenArg)
      found == { k \in TokenDocIds : tokens[k].exists /\ tokens[k].token = token }
      done(result) == ResetReturned("confirm2FAReset", c, tokenArg, result)
  IN
  /\ reset[c].pc = "idle"
  /\ UNCHANGED <<accounts, tokens, mail, clock>>
  /\ IF token = EmptyString THEN rlast' = done("invalid-argument") /\ UNCHANGED reset
     ELSE IF ~storeOk THEN rlast' = done("internal") /\ UNCHANGED reset
     ELSE IF found = {} THEN rlast' = done("not-found") /\ UNCHANGED reset
     ELSE \E k \in found :
            IF tokens[k].used
              THEN rlast' = done("failed-precondition") /\ UNCHANGED reset
              ELSE /\ reset' = [reset EXCEPT ![c] =
                                  [pc |-> IF expired THEN "deleteExpired" ELSE "update",
                                   arg |-> tokenArg, doc |-> k,
                                   userId |-> tokens[k].userId]]
                   /\ UNCHANGED rlast

\* Lines 258-263: `await tokenDoc.ref.delete()` of an expired token; delete
\* succeeds on a document that is gone.
ConfirmDeleteExpired(c, storeOk) ==
  LET call2 == reset[c] IN
  /\ call2.pc = "deleteExpired"
  /\ UNCHANGED <<accounts, mail, clock>>
  /\ reset' = [reset EXCEPT ![c] = NoReset]
  /\ IF ~storeOk
       THEN /\ rlast' = ResetReturned("confirm2FAReset", c, call2.arg, "internal")
            /\ UNCHANGED tokens
       ELSE /\ tokens' = [tokens EXCEPT ![call2.doc] = DeletedTokenDoc(@.token)]
            /\ rlast' = ResetReturned("confirm2FAReset", c, call2.arg, "deadline-exceeded")

\* The fields of userRef.update, lines 270-275.
Disable2FA(account, now) ==
  [account EXCEPT !.has2FA = FALSE, !.hasSecret = FALSE,
                  !.twoFactorDisabledAt = now,
                  !.twoFactorDisabledReason = "email_reset"]

\* Lines 266-275: `await userRef.update(...)`; update rejects when the user
\* document does not exist.
ConfirmUpdate(c, storeOk) ==
  LET call2 == reset[c] IN
  /\ call2.pc = "update"
  /\ UNCHANGED <<tokens, mail, clock>>
  /\ IF ~storeOk \/ ~accounts[call2.userId].exists
       THEN /\ rlast' = ResetReturned("confirm2FAReset", c, call2.arg, "internal")
            /\ reset' = [reset EXCEPT ![c] = NoReset]
            /\ UNCHANGED accounts
       ELSE /\ accounts' = [accounts EXCEPT ![call2.userId] =
                              Disable2FA(accounts[call2.userId], Timestamp(clock))]
            /\ reset' = [reset EXCEPT ![c] = [call2 EXCEPT !.pc = "delete"]]
            /\ UNCHANGED rlast

\* Lines 277-281: `await tokenDoc.ref.delete()` and the return of success.
ConfirmDelete(c, storeOk) ==
  LET call2 == reset[c] IN
  /\ call2.pc = "delete"
  /\ UNCHANGED <<accounts, mail, clock>>
  /\ reset' = [reset EXCEPT ![c] = NoReset]
  /\ IF ~storeOk
       THEN /\ rlast' = ResetReturned("confirm2FAReset", c, call2.arg, "internal")
            /\ UNCHANGED tokens
       ELSE /\ tokens' = [tokens EXCEPT ![call2.doc] = DeletedTokenDoc(@.token)]
            /\ rlast' = ResetReturned("confirm2FAReset", c, call2.arg, "success")

\* ======================================================================
\* initialize-teams.js
\* ======================================================================
\* initialTeams, lines 38-117: names and descriptions.
InitialTeams ==
  << [name |-> <<"Ambulance Paramedics">>,
      description |-> <<"Qualified paramedics providing ambulance-based care">>],
     [name |-> <<"Ambulance Crew">>,
      description |-> <<"Crew members supporting ambulance operations">>],
     [name |-> <<"Cycle Crew">>,
      description |-> <<"Emergency response on bicycles">>],
     [name |-> <<"Doctors (Static points only)">>,
      description |-> <<"Medical doctors stationed at fixed locations">>],
     [name |-> <<"Nurses (Static points only)">>,
      description |-> <<"Nursing staff stationed at fixed locations">>],
     [name |-> <<"Responders">>,
      description |-> <<"First responders providing initial emergency care">>],
     [name |-> <<"Stages">>,
      description |-> <<"Medical staff stationed at event stages">>],
     [name |-> <<"Stages Team Leaders">>,
      description |-> <<"Leadership personnel for stage medical teams">>],
     [name |-> <<"Medcomms Clinical Supervisor">>,
      description |-> <<"Clinical oversight for medical communications">>],
     [name |-> <<"Medcomms Dispatcher">>,
      description |-> <<"Resource allocation and dispatch personnel">>],
     [name |-> <<"Medcomms Call Taker">>,
      description |-> <<"Staff receiving and processing emergency calls">>],
     [name |-> <<"Medcomms Other">>,
      description |-> <<"Additional medical communications support staff">>],
     [name |-> <<"Make Ready crew">>,
      description |-> <<"Staff responsible for equipment preparation and maintenance">>] >>
\* The teams a run goes through.
TeamsToCreate == SubSeq(InitialTeams, 1, MaxInitialTeams)

SeedRuns == {"i1", "i2"}
\* The ids addDoc can hand out while the runs go on.
SeedDocIds == 1 .. (2 * MaxInitialTeams + 1)
\* A run that has returned result, having written `written` documents.
SeedReturned(result, written) == [pc |-> "returned", result |-> result, written |-> written]

\* The id addDoc hands out: one no document has had.
FreshId == CHOOSE i \in DOMAIN teams :
             /\ teams[i] = NeverCreated
             /\ \A j \in DOMAIN teams : teams[j] = NeverCreated => i <= j

\* teamsSnapshot.empty, line 32.
CollectionEmpty(coll) == \A i \in DOMAIN coll : ~coll[i].exists

\* initializeTeams(), lines 26-35: `await getDocs(teamsRef)` and the check.
InitializeTeamsBegin(r, storeOk) ==
  /\ seed[r].pc \in {"idle", "returned"}
  /\ UNCHANGED <<teams, users, del, tlast, call>>
  /\ IF ~storeOk THEN seed' = [seed EXCEPT ![r] = SeedReturned(FALSE, 0)]
     ELSE IF ~CollectionEmpty(teams) THEN seed' = [seed EXCEPT ![r] = SeedReturned(FALSE, 0)]
     ELSE seed' = [seed EXCEPT ![r] = [pc |-> "add", next |-> 1]]

\* One turn of the loop of lines 120-123, `await addDoc(collection(db,
\* 'teams'), team)`, and after the last turn `return true`; a rejected
\* addDoc goes to the catch, `return false`.
InitializeTeamsAdd(r, storeOk) ==
  LET c == seed[r]
      team == TeamsToCreate[c.next]
  IN
  /\ c.pc = "add"
  /\ \E i \in DOMAIN teams : teams[i] = NeverCreated
  /\ UNCHANGED <<users, del, tlast, call>>
  /\ IF ~storeOk
       THEN /\ seed' = [seed EXCEPT ![r] = SeedReturned(FALSE, c.next - 1)]
            /\ UNCHANGED teams
       ELSE /\ teams' = [teams EXCEPT ![FreshId] =
                           [exists |-> TRUE, deleted |-> FALSE, name |-> team.name,
                            description |-> team.description,
                            createdAt |-> Timestamp(clock),
                            updatedAt |-> Timestamp(clock)]]
            /\ seed' = [seed EXCEPT ![r] =
                          IF c.next = Len(TeamsToCreate) THEN SeedReturned(TRUE, c.next)
                          ELSE [c EXCEPT !.next = c.next + 1]]

\* No reset is under way: a user with 2FA and one without, no token.
ResetIdle ==
  /\ accounts = [u \in UserIds |-> IF u = "u1" THEN Account(<<"a", "@">>, TRUE)
                                   ELSE Account(<<"b", "@">>, FALSE)]
  /\ tokens = [k \in TokenDocIds |-> NoTokenDoc]
  /\ mail = {}
  /\ reset = [c \in ResetSlots |-> NoReset]
  /\ rlast = [op |-> "none", result |-> "none", confirmed |-> {}]

\* No request has arrived, no reset is under way; the applicants and the
\* accounts of the runs of the other calls.
FunctionsInit ==
  /\ applicants = [a \in ApplicantIds |-> Applicant(<<"a">>, "pending")]
  /\ hook = [h \in HookSlots |-> NoRequest]
  /\ resp = NoResponse
  /\ ResetIdle
  /\ seed = [r \in SeedRuns |-> [pc |-> "idle"]]

\* The user documents a run can start from: none, one without a teams
\* field, one with an empty teams array.
InitialUserDocs == {NoUserDoc, UserDoc(FALSE, << >>), UserDoc(TRUE, << >>)}

TeamInit(userDocs) ==
  /\ teams = [t \in TeamIds |-> NeverCreated]
  /\ users \in [UserIds -> userDocs]
  /\ del = NoDelete
  /\ tlast = [op |-> "none", result |-> "none"]
  /\ call = NoCall

\* The team calls leave the profiles and the clock as they are.
ProfilesUntouched == UNCHANGED <<clock, profileVars>> /\ UNCHANGED functionVars

TeamNext ==
  \/ \E t \in TeamIds, n \in NameArgs, d \in DescriptionArgs :
       CreateTeam(t, n, d, TRUE) /\ ProfilesUntouched /\ UNCHANGED call
  \/ \E u \in UserIds, t \in TeamIds : AddUserToTeam(u, t, TRUE) /\ ProfilesUntouched /\ UNCHANGED call
  \/ \E u \in UserIds, t \in TeamIds : RemoveUserFromTeam(u, t, TRUE) /\ ProfilesUntouched /\ UNCHANGED call
  \/ \E t \in TeamIds, ok \in BOOLEAN : DeleteTeamBegin(t, ok) /\ ProfilesUntouched /\ UNCHANGED call
  \/ \E ok \in BOOLEAN : DeleteTeamQuery(ok) /\ ProfilesUntouched /\ UNCHANGED call
  \/ \E u \in UserIds, ok \in BOOLEAN : DeleteTeamMemberUpdate(u, ok) /\ ProfilesUntouched /\ UNCHANGED call

\* ------------------------------------------------------------ specification
\* Time passes on the server.
Tick ==
  /\ clock < MaxClock
  /\ clock' = clock + 1
  /\ UNCHANGED <<profiles, proc, last>>

ProfileInit ==
  /\ profiles = [u \in UserIds |-> NoProfile]
  /\ proc = [p \in Procs |-> Idle]
  /\ last = [op |-> "none", result |-> "none"]
  /\ journey = 0

Init == clock = 0 /\ ProfileInit /\ TeamInit({UserDoc(FALSE, << >>)}) /\ FunctionsInit
\* The start of the runs of the team calls.
TeamsInit == clock = 0 /\ ProfileInit /\ TeamInit(InitialUserDocs) /\ FunctionsInit
\* ----------------------------------------------- the end-to-end scenario
\* The scenario, step by step: createProfile; updateDriving (its read, then
\* its write); submitProfile(true) (read, write); reviewProfile(rejected,
\* "missing DL number"); updateAndResubmitProfile with a new driving section
\* and no notes (read, write). journey counts the steps a run has taken in
\* this order with no other call in between; the clock may tick.
RejectionNotes == <<"missing DL number">>
JourneyStep(k) ==
  LET p == "p1"
      u == "u1"
      begins(pc) == proc[p].pc = "idle" /\ proc'[p].pc = pc /\ proc'[p].actor = u
      writes(pc) == proc[p].pc = pc /\ proc'[p].pc = "idle" /\ last'.result = "ok"
  IN CASE k = 0 -> /\ ~profiles[u].exists /\ profiles'[u].exists
                   /\ last'.op = "createProfile" /\ proc[p].pc = "idle"
       [] k = 1 -> begins("save") /\ proc'[p].arg = "driving"
       [] k = 2 -> writes("save")
       [] k = 3 -> begins("submit")
       [] k = 4 -> writes("submit")
       [] k = 5 -> /\ profiles' # profiles /\ last'.op = "reviewProfile"
                   /\ last'.user = u /\ last'.args.status = "rejected"
                   /\ last'.args.notes = RejectionNotes
       [] k = 6 -> begins("resubmit")
       [] k = 7 -> /\ writes("resubmit")
                   /\ last'.args.updatedProfile.notes = EmptyString
                   /\ last'.args.updatedProfile.driving # Undefined
       [] OTHER -> FALSE
JourneyNext ==
  IF <<profiles', proc', last'>> = <<profiles, proc, last>> THEN journey
  ELSE IF JourneyStep(journey) THEN journey + 1
  ELSE 0

\* What every step of the profile calls does besides: the scenario moves on
\* or starts over, and the teams collections stay as they are.
Observed == journey' = JourneyNext /\ UNCHANGED teamVars /\ UNCHANGED functionVars

\* The calls of profile-service.js with their arguments drawn from the sets
\* of in: procs (call slots), actors (auth.currentUser of the caller),
\* reviewers, targets, profileData, values (section payloads), agreed,
\* statuses and notes (reviewProfile), updated (updatedProfile), dates, and
\* storeOk (whether a store call succeeds).
ProfileNext(in) ==
  \/ Tick /\ Observed
  \/ \E a \in in.actors, d \in in.profileData, ok \in in.storeOk :
       CreateProfile(a, d, ok) /\ Observed
  \/ \E p \in in.procs, a \in in.actors, ok \in in.storeOk :
       UpdatePersonalDetails(p, a, ok) /\ Observed
  \/ \E p \in in.procs, a \in in.actors, ok \in in.storeOk :
       UpdateDriving(p, a, ok) /\ Observed
  \/ \E p \in in.procs, a \in in.actors, ok \in in.storeOk :
       UpdateMedicalQualifications(p, a, ok) /\ Observed
  \/ \E p \in in.procs, v \in in.values, ok \in in.storeOk :
       SaveWrite(p, v, ok) /\ Observed
  \/ \E p \in in.procs, a \in in.actors, t \in in.agreed, ok \in in.storeOk :
       SubmitBegin(p, a, t, ok) /\ Observed
  \/ \E p \in in.procs, ok \in in.storeOk : SubmitWrite(p, ok) /\ Observed
  \/ \E a \in in.reviewers, u \in in.targets, s \in in.statuses, n \in in.notes,
        ok \in in.storeOk : ReviewProfile(a, u, s, n, ok) /\ Observed
  \/ \E p \in in.procs, a \in in.actors, ok \in in.storeOk :
       ResubmitBegin(p, a, ok) /\ Observed
  \/ \E p \in in.procs, d \in in.updated, c \in in.dates, ok \in in.storeOk :
       ResubmitWrite(p, d, c, ok) /\ Observed

SectionsArg(pd, dr, mq) ==
  [personalDetails |-> pd, driving |-> dr, medicalQualifications |-> mq]
UpdatedProfileArg(sections, notes) ==
  [personalDetails |-> sections.personalDetails, driving |-> sections.driving,
   medicalQualifications |-> sections.medicalQualifications, notes |-> notes]

\* One signed-in user working on their own profile from one call slot, an
\* admin reviewing it, every store call succeeding.
LifecycleInputs ==
  [ procs |-> {"p1"}, actors |-> {"u1"}, reviewers |-> {"u2"}, targets |-> {"u1"},
    profileData |-> { SectionsArg(Undefined, Undefined, Undefined),
                      SectionsArg(Undefined, "v1", Undefined) },
    values |-> SectionValues,
    agreed |-> BOOLEAN,
    statuses |-> ReviewStatusArgs, notes |-> ReviewNotesArgs,
    updated |-> { UpdatedProfileArg(d, n) :
                    d \in { SectionsArg(Undefined, Undefined, Undefined),
                            SectionsArg("v2", "v2", "v2") },
                    n \in ExplicitNotesArgs },
    dates |-> ClientDates,
    storeOk |-> {TRUE} ]

Next == ProfileNext(LifecycleInputs)

\* The same calls with callers that are not signed in and store calls that
\* fail, on fewer arguments.
FailureInputs ==
  [ procs |-> {"p1"}, actors |-> {"u1", NoUser}, reviewers |-> {"u2", NoUser},
    targets |-> {"u1"},
    profileData |-> { SectionsArg(Undefined, "v1", Undefined) },
    values |-> SectionValues,
    agreed |-> BOOLEAN,
    statuses |-> {"approved", "rejected"}, notes |-> { <<"missing DL number">> },
    updated |-> { UpdatedProfileArg(SectionsArg("v2", "v2", "v2"), EmptyString) },
    dates |-> { [day |-> 5, month |-> 3, year |-> 2025] },
    storeOk |-> BOOLEAN ]

FailureNext == ProfileNext(FailureInputs)
FailureSpec == Init /\ [][FailureNext]_vars

Spec == Init /\ [][Next]_vars

\* The team calls alone.
TeamSpec == TeamsInit /\ [][TeamNext]_vars

\* A getUserTeams call that a store write of another call runs into, during
\* the call or after its return, is marked: what it returned need no longer
\* be what the collections hold.
Overlapped(c) == IF c.pc = "idle" THEN c ELSE [c EXCEPT !.overlapped = TRUE]
Overlap == ProfilesUntouched /\ call' = Overlapped(call)
\* The steps of getUserTeams write no team document and no profile.
Reading == ProfilesUntouched

\* getUserTeams among the calls that create and delete teams and change
\* the membership of the user.
UserTeamsNext ==
  \/ \E t \in TeamIds, n \in {<<" ", "A", " ">>, <<"B">>}, d \in DescriptionArgs :
       CreateTeam(t, n, d, TRUE) /\ Overlap
  \/ \E t \in TeamIds : AddUserToTeam("u1", t, TRUE) /\ Overlap
  \/ \E t \in TeamIds : DeleteTeamBegin(t, TRUE) /\ Overlap
  \/ DeleteTeamQuery(TRUE) /\ Overlap
  \/ \E ok \in BOOLEAN : DeleteTeamMemberUpdate("u1", ok) /\ Overlap
  \/ GetUserTeamsBegin("u1", TRUE) /\ Reading
  \/ GetUserTeamsInitialise(TRUE) /\ Reading
  \/ GetUserTeamsResolve(TRUE) /\ Reading

\* The runs of getUserTeams start with any of the user documents for u1.
UserTeamsInit == TeamsInit /\ users["u2"] = NoUserDoc
UserTeamsSpec == UserTeamsInit /\ [][UserTeamsNext]_vars

\* The calls on the team documents alone, the store failing or not.
TeamRecordsNext ==
  \/ \E t \in TeamIds, n \in NameArgs, d \in DescriptionArgs, ok \in BOOLEAN :
       CreateTeam(t, n, d, ok) /\ ProfilesUntouched /\ UNCHANGED call
  \/ \E t \in TeamIds, n \in NameArgs, d \in DescriptionArgs, ok \in BOOLEAN :
       UpdateTeam(t, n, d, ok) /\ ProfilesUntouched /\ UNCHANGED call
  \/ \E t \in TeamIds : DeleteTeamBegin(t, TRUE) /\ ProfilesUntouched /\ UNCHANGED call
  \/ DeleteTeamQuery(TRUE) /\ ProfilesUntouched /\ UNCHANGED call

TeamRecordsSpec == Init /\ [][TeamRecordsNext]_vars


\* No deleteTeam(t) is in flight and none of its member updates is pending.
NoDeleteOf(t) ==
  IF del.pc = "idle" THEN TRUE
  ELSE (del.pc = "done" /\ del.pending = {}) \/ del.team # t

\* deleteTeam among the calls that create teams and change memberships,
\* where no other call writes the membership of a team while deleteTeam of
\* that team runs, and addDoc hands out no id that a running deleteTeam
\* was called with.
DeleteTeamNext ==
  \/ \E t \in TeamIds, d \in DescriptionArgs :
       NoDeleteOf(t) /\ CreateTeam(t, <<"B">>, d, TRUE) /\ ProfilesUntouched /\ UNCHANGED call
  \/ \E u \in UserIds, t \in TeamIds :
       NoDeleteOf(t) /\ AddUserToTeam(u, t, TRUE) /\ ProfilesUntouched /\ UNCHANGED call
  \/ \E u \in UserIds, t \in TeamIds :
       NoDeleteOf(t) /\ RemoveUserFromTeam(u, t, TRUE) /\ ProfilesUntouched /\ UNCHANGED call
  \/ \E t \in TeamIds, ok \in BOOLEAN : DeleteTeamBegin(t, ok) /\ ProfilesUntouched /\ UNCHANGED call
  \/ \E ok \in BOOLEAN : DeleteTeamQuery(ok) /\ ProfilesUntouched /\ UNCHANGED call
  \/ \E u \in UserIds, ok \in BOOLEAN :
       DeleteTeamMemberUpdate(u, ok) /\ ProfilesUntouched /\ UNCHANGED call

DeleteTeamSpec == TeamsInit /\ [][DeleteTeamNext]_vars

\* The requests stripeWebhook is sent: completed checkouts whose email is in
\* customer_details or in customer_email, with and without payment_intent,
\* amount_total and currency; one without any email; one without
\* data.object; an event of another type.
WebhookEvents ==
  { Event(CheckoutCompleted, TRUE, <<" ", "A", " ">>, EmptyString, "cs_1", Undefined, 0,
          Undefined),
    Event(CheckoutCompleted, TRUE, EmptyString, <<"b">>, "cs_2", "pi_2", 2500, "eur"),
    Event(CheckoutCompleted, TRUE, <<"A">>, <<"b">>, "cs_3", "pi_3", 2500, Undefined),
    Event(CheckoutCompleted, TRUE, EmptyString, EmptyString, "cs_4", "pi_4", 2500, "eur"),
    Event(CheckoutCompleted, FALSE, EmptyString, EmptyString, "", Undefined, 0, Undefined),
    Event("payment_intent.succeeded", TRUE, <<"a">>, EmptyString, "pi_5", Undefined, 2500,
          "eur") }
HttpMethods == {"POST", "GET"}

\* The webhook leaves the profiles and the teams as they are.
OthersUntouched == UNCHANGED <<profileVars, teamVars, resetVars, seed>>

\* One request at a time, the store failing or not.
WebhookNext ==
  \/ \E m \in HttpMethods, e \in WebhookEvents : WebhookReceive("h1", m, e) /\ OthersUntouched
  \/ \E ok \in BOOLEAN : WebhookQuery("h1", ok) /\ OthersUntouched
  \/ \E ok \in BOOLEAN : WebhookFallbackQuery("h1", ok) /\ OthersUntouched
  \/ \E ok \in BOOLEAN : WebhookCommit("h1", ok) /\ OthersUntouched

\* The applicants a run starts from: any emails in any statuses.
WebhookInit ==
  /\ clock = 0 /\ ProfileInit /\ TeamInit({UserDoc(FALSE, << >>)})
  /\ applicants \in [ApplicantIds -> { Applicant(e, st) : e \in ApplicantEmails,
                                                          st \in ApplicantStatuses }]
  /\ hook = [h \in HookSlots |-> NoRequest]
  /\ resp = NoResponse
  /\ ResetIdle
  /\ seed = [r \in SeedRuns |-> [pc |-> "idle"]]
WebhookSpec == WebhookInit /\ [][WebhookNext]_vars

\* The 2FA reset calls leave the profiles, the teams and the applicants.
ResetOnly == UNCHANGED <<profileVars, teamVars, webhookVars, seed>>

EmailArgs == { EmptyString, <<"a">>, <<" ", "A", "@">>, <<"b", "@">> }
TokenArgs == { EmptyString, <<" ", "tokA">>, <<"tokB">> }

\* One request2FAReset and two confirm2FAReset calls at a time, the store
\* failing or not, the token expired or not when it is checked.
ResetNext ==
  \/ \E e \in EmailArgs, ok \in BOOLEAN : RequestQuery("r1", e, ok) /\ ResetOnly
  \/ \E k \in TokenDocIds, v \in TokenValues, ok \in BOOLEAN :
       RequestAddToken("r1", k, v, ok) /\ ResetOnly
  \/ \E ok \in BOOLEAN : RequestAddMail("r1", ok) /\ ResetOnly
  \/ \E c \in {"c1", "c2"}, t \in TokenArgs, ok \in BOOLEAN, expired \in BOOLEAN :
       ConfirmQuery(c, t, ok, expired) /\ ResetOnly
  \/ \E c \in {"c1", "c2"}, ok \in BOOLEAN : ConfirmDeleteExpired(c, ok) /\ ResetOnly
  \/ \E c \in {"c1", "c2"}, ok \in BOOLEAN : ConfirmUpdate(c, ok) /\ ResetOnly
  \/ \E c \in {"c1", "c2"}, ok \in BOOLEAN : ConfirmDelete(c, ok) /\ ResetOnly

ResetSpec == Init /\ [][ResetNext]_vars

\* Two runs of initializeTeams, an administrator creating a team with
\* createTeam and deleting one, the store failing or not.
SeedNext ==
  \/ \E r \in SeedRuns, ok \in BOOLEAN :
       /\ InitializeTeamsBegin(r, ok)
       /\ UNCHANGED <<clock, profileVars, webhookVars, resetVars>>
  \/ \E r \in SeedRuns, ok \in BOOLEAN :
       /\ InitializeTeamsAdd(r, ok)
       /\ UNCHANGED <<clock, profileVars, webhookVars, resetVars>>
  \/ \E d \in DescriptionArgs :
       /\ \E i \in DOMAIN teams : teams[i] = NeverCreated
       /\ CreateTeam(FreshId, <<"B">>, d, TRUE)
       /\ UNCHANGED <<clock, profileVars, webhookVars, resetVars, call, seed>>

\* The teams collection is empty and can take the documents of the runs.
SeedInit ==
  /\ clock = 0 /\ ProfileInit /\ FunctionsInit
  /\ teams = [i \in SeedDocIds |-> NeverCreated]
  /\ users = [u \in UserIds |-> UserDoc(FALSE, << >>)]
  /\ del = NoDelete
  /\ tlast = [op |-> "none", result |-> "none"]
  /\ call = NoCall
SeedSpec == SeedInit /\ [][SeedNext]_vars

\* ======================================================================
\* Properties of the profile lifecycle
\* ======================================================================
\* Date strings in the form DD Mon YYYY, written out for the dates of
\* ClientDates.
DDMonYYYY(date) ==
  CASE date = [day |-> 5, month |-> 3, year |-> 2025] ->
         <<"0", "5", " ", "Mar", " ", "2", "0", "2", "5">>
    [] date = [day |-> 17, month |-> 12, year |-> 2025] ->
         <<"1", "7", " ", "Dec", " ", "2", "0", "2", "5">>
GeneratedLine(date) ==
  <<"Profile updated by user on ">> \o DDMonYYYY(date) \o <<". Requires review.">>

\* C1: the stored adminUse.status of every profile is one of draft, pending,
\* approved, rejected, whatever the calls' arguments.
C1_StatusAlwaysInEnum ==
  \A u \in UserIds : profiles[u].exists => profiles[u].adminUse.status \in StatusSet

\* C2: a section save on an existing profile that read status pending or ''
\* leaves status draft; one that read approved, rejected or draft leaves
\* the status its write found.
C2_SaveStatus ==
  [][\A p \in Procs :
       (proc[p].pc = "save" /\ proc'[p].pc = "idle" /\ last'.result = "ok"
          /\ proc[p].snap.exists)
       => LET u == proc[p].actor
              read == proc[p].snap.status
          IN /\ read \in {"pending", ""} => profiles'[u].adminUse.status = "draft"
             /\ read \in {"approved", "rejected", "draft"}
                  => profiles'[u].adminUse.status = profiles[u].adminUse.status]_vars

\* A save that read pending has left the profile in draft.
C2_Witness ==
  /\ last.op = "updateDriving" /\ last.result = "ok"
  /\ last.snap.exists /\ last.snap.status = "pending"
  /\ profiles[last.user].adminUse.status = "draft"

\* C3: after every successful updateAndResubmitProfile the profile has
\* adminUse.status pending and a non-null submission.submittedAt.
C3_ResubmitPending ==
  (last.op = "updateAndResubmitProfile" /\ last.result = "ok")
    => /\ profiles[last.user].adminUse.status = "pending"
       /\ profiles[last.user].submission.submittedAt # NullTimestamp

\* A resubmission of an approved profile has completed.
C3_Witness ==
  /\ last.op = "updateAndResubmitProfile" /\ last.result = "ok"
  /\ last.pre = "approved"
  /\ profiles[last.user].adminUse.status = "pending"

\* C4: submitProfile(false) by a signed-in user fails with the
\* terms-not-accepted error, issues no store call and leaves every profile
\* document as it was.
C4_SubmitFalse ==
  /\ [](last.op = "submitProfile" /\ last.actor # NoUser
          /\ ~last.args.agreedToTerms
        => last.result = "TermsNotAccepted" /\ last.reads = 0 /\ last.writes = 0)
  /\ [][(last'.op = "submitProfile" /\ ~last'.args.agreedToTerms)
          => profiles' = profiles]_vars

\* submitProfile(false) was refused on an existing, approved profile.
C4_Witness ==
  /\ last.op = "submitProfile" /\ ~last.args.agreedToTerms
  /\ last.result = "TermsNotAccepted"
  /\ profiles[last.user].exists /\ profiles[last.user].adminUse.status = "approved"

\* C5: a resubmission without explicit notes whose read found the profile
\* stores the notes it read followed by "\n\n" and the generated line when
\* those notes are non-empty, and the generated line alone when they are
\* empty.
C5_GeneratedNotes ==
  (last.op = "updateAndResubmitProfile" /\ last.result = "ok"
     /\ last.args.updatedProfile.notes = EmptyString /\ last.snap.exists)
    => profiles[last.user].adminUse.notes =
         IF last.snap.notes # EmptyString
           THEN last.snap.notes \o <<"\n\n">> \o GeneratedLine(last.args.date)
           ELSE GeneratedLine(last.args.date)

\* A resubmission has appended the generated line to a reviewer's notes.
C5_Witness ==
  /\ last.op = "updateAndResubmitProfile" /\ last.result = "ok"
  /\ last.args.updatedProfile.notes = EmptyString
  /\ last.snap.exists /\ last.snap.notes = <<"missing DL number">>
  /\ profiles[last.user].adminUse.notes =
       <<"missing DL number", "\n\n", "Profile updated by user on ",
         "0", "5", " ", "Mar", " ", "2", "0", "2", "5", ". Requires review.">>

\* C6: whenever updatedProfile.adminUse.notes is non-empty, the stored notes
\* after a successful resubmission are those notes.
C6_ExplicitNotesWin ==
  (last.op = "updateAndResubmitProfile" /\ last.result = "ok"
     /\ last.args.updatedProfile.notes # EmptyString)
    => profiles[last.user].adminUse.notes = last.args.updatedProfile.notes

\* ======================================================================
\* Properties of the team calls
\* ======================================================================
\* C7: in deleteTeam's cascade a member update that fails stops no other:
\* every user the query returned has its update pending, fulfilled or
\* rejected, the three apart; once none is pending every member whose update
\* did not fail has had it applied; and the step that fulfils a member's
\* update leaves that member's teams array without the team.
C7_CascadeBestEffort ==
  /\ [](del.pc \in {"cascade", "done"}
          => /\ del.members = del.pending \cup del.fulfilled \cup del.rejected
             /\ del.pending \cap del.fulfilled = {}
             /\ del.pending \cap del.rejected = {}
             /\ del.fulfilled \cap del.rejected = {}
             /\ del.pending = {} => del.fulfilled = del.members \ del.rejected)
  /\ [][\A u \in UserIds :
          (del.pc \in {"cascade", "done"} /\ u \in del.pending /\ u \in del'.fulfilled)
            => /\ users'[u].exists
               /\ del.team \notin Range(users'[u].teams)
               /\ del.team \in Range(users[u].teams) => users'[u] # users[u]]_vars

\* One member's update has failed, the other member's was applied after
\* the failure, and that member is out of the team.
C7_Witness ==
  /\ del.pc = "done" /\ del.pending = {}
  /\ del.rejected = {"u1"} /\ del.fulfilled = {"u2"}
  /\ del.outcome = [kind |-> "rejected", error |-> "u1"]
  /\ tlast.op = "deleteTeam.updateDoc" /\ tlast.user = "u2" /\ tlast.result = "ok"
  /\ del.team \in Range(tlast.before)
  /\ del.team \notin Range(users["u2"].teams)

\* C8: when some member updates of a deleteTeam fail, what the caller gets
\* is an aggregate outcome with the counts of the updates that succeeded
\* and failed, and not the first error.
C8_AggregateOutcome ==
  (del.pc = "done" /\ del.pending = {} /\ del.rejected # {})
    => /\ del.outcome.kind = "aggregate"
       /\ del.outcome.succeeded = Cardinality(del.fulfilled)
       /\ del.outcome.failed = Cardinality(del.rejected)

\* C10: an addUserToTeam(u, t) on a user whose teams array already holds t
\* succeeds and leaves the array as it was, so a second application changes
\* nothing after the first, and every successful addUserToTeam leaves t in
\* the set once; a removeUserFromTeam(u, t) on an existing user whose set
\* does not hold t succeeds and leaves the set as it was.
C10_Idempotent ==
  /\ (tlast.op = "addUserToTeam" /\ tlast.result = "ok")
       => /\ Range(users[tlast.user].teams) = Range(tlast.before) \cup {tlast.team}
          /\ Cardinality({ i \in DOMAIN users[tlast.user].teams :
                             users[tlast.user].teams[i] = tlast.team }) = 1
          /\ tlast.team \in Range(tlast.before) => users[tlast.user].teams = tlast.before
  /\ (tlast.op = "removeUserFromTeam" /\ tlast.existed
        /\ tlast.team \notin Range(tlast.before))
       => /\ tlast.result = "ok"
          /\ Range(users[tlast.user].teams) = Range(tlast.before)

\* addUserToTeam("u1", "t1") was applied to an array that held t1 already.
C10_Witness ==
  /\ tlast.op = "addUserToTeam" /\ tlast.result = "ok"
  /\ tlast.user = "u1" /\ tlast.team = "t1"
  /\ tlast.before = <<"t2", "t1">>
  /\ users["u1"].teams = <<"t2", "t1">>

\* ======================================================================
\* The end-to-end scenario
\* ======================================================================
\* C9: along createProfile, save of driving, submitProfile(true),
\* reviewProfile(rejected, N), updateAndResubmitProfile with a new driving
\* section and no notes, in this order: the status is draft after the save;
\* pending with submittedAt set after the submission; and at the end the
\* status is pending, the notes are N, "\n\n" and the generated line, and
\* the driving section is the new one.
C9_EndToEnd ==
  LET d == profiles["u1"] IN
  /\ journey = 3 => d.adminUse.status = "draft"
  /\ journey = 5 => /\ d.adminUse.status = "pending"
                    /\ d.submission.submittedAt # NullTimestamp
  /\ journey = 8 => /\ d.adminUse.status = "pending"
                    /\ d.adminUse.notes =
                         <<"missing DL number", "\n\n">> \o GeneratedLine(last.args.date)
                    /\ d.driving = "v2"
                    /\ last.args.updatedProfile.driving = "v2"

\* The scenario has run to its end.
C9_Witness ==
  /\ journey = 8
  /\ profiles["u1"].adminUse.status = "pending"
  /\ profiles["u1"].driving = "v2"

\* ======================================================================
\* Properties of getUserTeams
\* ======================================================================
\* C11: a getUserTeams(u) that no store write of another call has run into
\* returns without an error, and what it returned is exactly one record,
\* as stored, for each id of u's membership set whose team document
\* exists, the records in ascending order of their names; the ids whose
\* team was deleted or never existed are left out.
C11_UserTeams ==
  (call.pc = "done" /\ ~call.overlapped)
    => LET r == call.result
           live == { t \in Membership(call.user) : teams[t].exists }
       IN /\ call.outcome = "ok"
          /\ { r[i].id : i \in DOMAIN r } = live
          /\ Len(r) = Cardinality(live)
          /\ \A i \in DOMAIN r :
               /\ r[i].name = teams[r[i].id].name
               /\ r[i].description = teams[r[i].id].description
          /\ \A i, j \in DOMAIN r :
               i < j => ~(r[i].name = <<"B">> /\ r[j].name = <<"A">>)

\* u1 has two ids, the team of the first was deleted, and getUserTeams
\* returned the record of the second alone.
C11_Witness ==
  /\ call.pc = "done" /\ ~call.overlapped /\ call.outcome = "ok"
  /\ call.user = "u1" /\ users["u1"].exists /\ users["u1"].teams = <<"t1", "t2">>
  /\ teams["t1"] = DeletedTeam /\ teams["t2"].exists
  /\ Len(call.result) = 1 /\ call.result[1].id = "t2"

\* ======================================================================
\* Properties of the failing profile calls
\* ======================================================================
\* C12: every call of profile-service.js made with no signed-in user
\* (createProfile, the three section saves, submitProfile, reviewProfile,
\* updateAndResubmitProfile) ends with the not-authenticated error having
\* issued no store read and no store write; the step changes no profile,
\* and no call of such a caller is ever in flight at a store call.
C12_NotAuthenticated ==
  /\ []((last.op # "none" /\ last.actor = NoUser)
          => /\ last.result = "NotAuthenticated"
             /\ last.reads = 0 /\ last.writes = 0)
  /\ [](\A p \in Procs : proc[p].pc # "idle" => proc[p].actor # NoUser)
  /\ [][(last'.op # "none" /\ last'.actor = NoUser) => profiles' = profiles]_vars

\* An unauthenticated updateAndResubmitProfile was refused while the
\* profile of u1 exists.
C12_Witness ==
  /\ last.op = "updateAndResubmitProfile" /\ last.actor = NoUser
  /\ last.result = "NotAuthenticated" /\ last.reads = 0 /\ last.writes = 0
  /\ profiles["u1"].exists

\* ======================================================================
\* Properties of the team documents
\* ======================================================================
\* C13: a createTeam or updateTeam whose name is missing or only white
\* space ends with the validation error, and that step leaves every team
\* document as it was; a name with other characters never ends so; after a
\* successful call the stored name is the name without the white space
\* around it; and every stored name is non-empty and trimmed.
C13_NameValidated ==
  /\ [](tlast.op \in {"createTeam", "updateTeam"}
          => /\ tlast.name \in {<< >>, <<" ">>} <=> tlast.result = "ValidationError"
             /\ tlast.result = "ok"
                  => /\ teams[tlast.team].exists
                     /\ tlast.name = <<" ", "A", " ">> => teams[tlast.team].name = <<"A">>
                     /\ tlast.name = <<"B">> => teams[tlast.team].name = <<"B">>)
  /\ [](\A t \in TeamIds : teams[t].exists => teams[t].name \in {<<"A">>, <<"B">>})
  /\ [][(tlast'.op \in {"createTeam", "updateTeam"}
           /\ tlast'.result = "ValidationError") => teams' = teams]_vars

\* updateTeam with the name " " was refused on an existing team.
C13_Witness ==
  /\ tlast.op = "updateTeam" /\ tlast.name = <<" ">>
  /\ tlast.result = "ValidationError"
  /\ teams[tlast.team].exists /\ teams[tlast.team].name = <<"B">>

\* C14: no two stored teams have the same name.
C14_NamesUnique ==
  \A t1, t2 \in TeamIds :
    (t1 # t2 /\ teams[t1].exists /\ teams[t2].exists) => teams[t1].name # teams[t2].name

\* C15: while no deleteTeam is in progress, every id in every user's teams
\* array is the id of an existing team; stated for the ids that createTeam
\* has handed out, so that what breaks it is a team that was deleted.
C15_MembershipOfExistingTeams ==
  (del.pc = "idle" \/ (del.pc = "done" /\ del.pending = {}))
    => \A u \in UserIds : \A t \in Membership(u) :
         teams[t] # NeverCreated => teams[t].exists

\* ======================================================================
\* Properties of submittedAt and of the notes
\* ======================================================================
\* C16: the submission.submittedAt of a profile (null while there is no
\* document) changes only in a step of submitProfile or of
\* updateAndResubmitProfile; no step of a section save, of createProfile or
\* of reviewProfile changes it.
C16_SubmittedAtWriters ==
  [][\A u \in UserIds :
       LET before == IF profiles[u].exists
                       THEN profiles[u].submission.submittedAt ELSE NullTimestamp
           after == IF profiles'[u].exists
                      THEN profiles'[u].submission.submittedAt ELSE NullTimestamp
       IN after # before
            => last'.op \in {"submitProfile", "updateAndResubmitProfile"}]_vars

\* a is the beginning of b.
IsPrefix(a, b) == Len(a) <= Len(b) /\ SubSeq(b, 1, Len(a)) = a

\* C17: once a profile has been resubmitted its adminUse.notes only grow:
\* a step that changes them leaves notes that begin with the notes it
\* found. Stated for a reviewProfile or an updateAndResubmitProfile that
\* follows a successful resubmission.
C17_NotesAppendOnly ==
  [][(last.op = "updateAndResubmitProfile" /\ last.result = "ok"
        /\ last'.op \in {"reviewProfile", "updateAndResubmitProfile"}
        /\ profiles'[last.user].exists)
       => IsPrefix(profiles[last.user].adminUse.notes,
                   profiles'[last.user].adminUse.notes)]_vars

\* C18: an updateAndResubmitProfile whose read finds no profile document,
\* and whose write still finds none, fails with the not-found error of the
\* write, and there is no profile document of the caller afterwards.
C18_ResubmitWithoutProfile ==
  (last.op = "updateAndResubmitProfile" /\ ~last.snap.exists
     /\ last.pre = NoDocument)
    => /\ last.result = "NotFound"
       /\ ~profiles[last.user].exists

\* A resubmission with no profile has failed and left none.
C18_Witness ==
  /\ last.op = "updateAndResubmitProfile" /\ last.result = "NotFound"
  /\ ~last.snap.exists /\ last.pre = NoDocument
  /\ ~profiles["u1"].exists

\* C19: the write of a successful submitProfile(true) leaves
\* submission.agreedToTerms true, submission.submittedAt the server time,
\* adminUse.status pending, and the three sections, adminUse.approvedBy,
\* notes and reviewedAt, and every other profile, as it found them.
C19_SubmitFrame ==
  [][\A p \in Procs :
       (proc[p].pc = "submit" /\ proc'[p].pc = "idle" /\ last'.result = "ok")
       => LET u == proc[p].actor
              d == profiles[u]
              e == profiles'[u]
          IN /\ last'.args.agreedToTerms = TRUE
             /\ e.submission = [agreedToTerms |-> TRUE, submittedAt |-> <<clock>>]
             /\ e.adminUse.status = "pending"
             /\ e.personalDetails = d.personalDetails
             /\ e.driving = d.driving
             /\ e.medicalQualifications = d.medicalQualifications
             /\ e.adminUse.approvedBy = d.adminUse.approvedBy
             /\ e.adminUse.notes = d.adminUse.notes
             /\ e.adminUse.reviewedAt = d.adminUse.reviewedAt
             /\ \A v \in UserIds \ {u} : profiles'[v] = profiles[v]]_vars

\* A rejected profile with the reviewer's notes has been submitted again
\* with submitProfile(true), and the notes are still there.
C19_Witness ==
  /\ last.op = "submitProfile" /\ last.result = "ok" /\ last.pre = "rejected"
  /\ profiles["u1"].adminUse.status = "pending"
  /\ profiles["u1"].adminUse.notes = <<"missing DL number">>
  /\ profiles["u1"].adminUse.approvedBy = "u2"
  /\ profiles["u1"].submission.agreedToTerms

WholeWrite(rec, before, after, now) ==
  CASE rec.op = "createProfile" ->
         /\ after.adminUse.status = "draft"
         /\ after.submission = [agreedToTerms |-> FALSE, submittedAt |-> NullTimestamp]
    [] rec.op \in {"updatePersonalDetails", "updateDriving",
                   "updateMedicalQualifications"} ->
         /\ after[rec.args.section] = rec.args.value
         /\ after.adminUse.status =
              IF ~rec.snap.exists \/ rec.snap.status \in {"pending", ""}
                THEN "draft" ELSE before.adminUse.status
    [] rec.op = "submitProfile" ->
         /\ after.adminUse.status = "pending"
         /\ after.submission = [agreedToTerms |-> TRUE, submittedAt |-> now]
    [] rec.op = "reviewProfile" ->
         /\ after.adminUse = [status |-> rec.args.status, approvedBy |-> rec.actor,
                              notes |-> rec.args.notes, reviewedAt |-> now]
    [] rec.op = "updateAndResubmitProfile" ->
         /\ after.adminUse.status = "pending"
         /\ after.submission.submittedAt = now
         /\ \A sec \in Sections :
              after[sec] = Or(rec.args.updatedProfile[sec], EmptyObject)

\* C21: no profile call leaves the status half-applied. A step changes a
\* profile only as the last step of a call that succeeds, and then the
\* document of that call's user holds the call's status together with the
\* other fields of its write; the last step of a call that fails (not
\* signed in, terms refused, profile missing, store error) and the read of
\* every call change no profile.
C21_NoHalfAppliedStatus ==
  [][/\ \A u \in UserIds :
          profiles'[u] # profiles[u]
            => /\ last'.op # "none" /\ last'.result = "ok" /\ last'.user = u
               /\ profiles'[u].exists
               /\ WholeWrite(last', profiles[u], profiles'[u], Timestamp(clock))
     /\ (last' # last /\ last'.result = "ok")
          => /\ profiles'[last'.user].exists
             /\ WholeWrite(last', profiles[last'.user], profiles'[last'.user],
                           Timestamp(clock))
     /\ (last' # last /\ last'.result # "ok")
          => /\ profiles' = profiles
             /\ last'.pre = IF last'.user \in UserIds /\ profiles'[last'.user].exists
                               THEN profiles'[last'.user].adminUse.status
                               ELSE NoDocument]_vars
\* A submission whose write the store refused has left an approved profile
\* approved.
C21_Witness ==
  /\ last.op = "submitProfile" /\ last.result = "StoreError" /\ last.writes = 1
  /\ profiles[last.user].exists
  /\ profiles[last.user].adminUse.status = "approved"
  /\ ~profiles[last.user].submission.agreedToTerms

\* ======================================================================
\* Properties of the payment webhook
\* ======================================================================
\* C22: every provider event received over HTTP POST is acknowledged with
\* a success response (status 200), whatever the event and whether or not
\* it could be processed.
C22_AlwaysAcknowledged ==
  resp.method = "POST" => resp.code = 200

\* C23: the webhook changes an applicant document only from approved_to_pay
\* to paid, only for a checkout.session.completed event, and only when the
\* document's email is the lower-cased, trimmed customer email of the event;
\* every other document stays as it is.
C23_OnlyAwaitingToPaid ==
  [][\A a \in ApplicantIds :
       applicants'[a] # applicants[a]
         => /\ applicants[a].status = "approved_to_pay"
            /\ applicants'[a].status = "paid"
            /\ applicants'[a].email = applicants[a].email
            /\ resp'.event.type = CheckoutCompleted
            /\ resp'.method = "POST"
            /\ \/ /\ Truthy(resp'.event.detailsEmail)
                  /\ applicants[a].email = Trim(ToLowerCase(resp'.event.detailsEmail))
               \/ /\ ~Truthy(resp'.event.detailsEmail)
                  /\ applicants[a].email = Trim(ToLowerCase(resp'.event.customerEmail))]_vars
\* A checkout completed by " A " has marked the applicant "a" paid and left
\* the applicant "A", who also awaits payment, alone.
C23_Witness ==
  /\ resp.code = 200 /\ resp.event.type = CheckoutCompleted
  /\ resp.event.detailsEmail = <<" ", "A", " ">>
  /\ applicants["a1"].email = <<"a">> /\ applicants["a1"].status = "paid"
  /\ applicants["a1"].payment.recorded
  /\ applicants["a2"].email = <<"A">> /\ applicants["a2"].status = "approved_to_pay"

\* ======================================================================
\* Properties of createProfile and of the fallback of the saves
\* ======================================================================
\* The default createProfile substitutes for an omitted section.
DefaultOf(section) ==
  CASE section = "personalDetails" -> DefaultPersonalDetails
    [] section = "driving" -> DefaultDriving
    [] section = "medicalQualifications" -> DefaultMedicalQualifications

\* C24: a section save whose read found no profile creates one that holds
\* the supplied section, the defaults for the two other sections,
\* submission {agreedToTerms: false, submittedAt: null} and status draft;
\* and every profile createProfile has just written has its three sections
\* present and status draft.
C24_SaveCreatesDefaults ==
  [][/\ \A p \in Procs :
          (proc[p].pc = "save" /\ ~proc[p].snap.exists /\ proc'[p].pc = "idle"
             /\ last'.result = "ok")
            => LET d == profiles'[proc[p].actor] IN
               /\ d.exists
               /\ \A sec \in Sections :
                    d[sec] = IF sec = proc[p].arg THEN last'.args.value ELSE DefaultOf(sec)
               /\ d.submission = [agreedToTerms |-> FALSE, submittedAt |-> NullTimestamp]
               /\ d.adminUse.status = "draft"
     /\ (last'.op = "createProfile" /\ last'.result = "ok"
           /\ (last' # last \/ profiles' # profiles))
          => LET d == profiles'[last'.user] IN
             /\ d.exists
             /\ \A sec \in Sections :
                  d[sec] = IF last'.args.profileData[sec] # Undefined
                             THEN last'.args.profileData[sec] ELSE DefaultOf(sec)
             /\ d.adminUse.status = "draft"]_vars
\* updateDriving found no profile and has created one around its section.
C24_Witness ==
  /\ last.op = "updateDriving" /\ last.result = "ok" /\ ~last.snap.exists
  /\ profiles[last.user].exists
  /\ profiles[last.user].driving = last.args.value
  /\ profiles[last.user].personalDetails = DefaultPersonalDetails
  /\ profiles[last.user].adminUse.status = "draft"

\* ======================================================================
\* Properties of deleteTeam and of the interleavings
\* ======================================================================
\* C25: deleteTeam deletes the team document before it cleans memberships
\* and returns success only when every member update it issued has
\* completed. At the step where deleteTeam(T) returns success, no other
\* call having written the membership of T meanwhile, T does not exist and
\* no membership set contains T; a member update is applied only when the
\* team document is gone; and when the delete of the team document fails,
\* no membership set changes and no member update is issued.
C25_DeleteThenClean ==
  [][/\ (del' # del /\ del'.pc = "done" /\ del'.outcome = Resolved)
          => /\ ~teams'[del'.team].exists
             /\ del'.pending = {}
             /\ \A u \in UserIds :
                  users'[u].exists => del'.team \notin Range(users'[u].teams)
     /\ (del' # del /\ users' # users) => ~teams[del.team].exists
     /\ (del' # del /\ tlast'.op = "deleteTeam.deleteDoc" /\ tlast'.result = "StoreError")
          => /\ users' = users /\ teams' = teams
             /\ del'.pc = "done" /\ del'.outcome.kind = "error"
             /\ del'.pending = {}]_vars
\* deleteTeam of a team with two members has returned success.
C25_Witness ==
  /\ del.pc = "done" /\ del.outcome = Resolved
  /\ del.fulfilled = UserIds
  /\ teams[del.team] = DeletedTeam
  /\ \A u \in UserIds : del.team \notin Membership(u)

\* C26: a section save never revokes an approval, whatever reviewProfile
\* does between the save's read and its write: when the write of a save
\* that read a pending profile is applied to a profile whose status is
\* by now approved, the status is approved afterwards.
C26_SaveKeepsApproval ==
  [][\A p \in Procs :
       (/\ proc[p].pc = "save" /\ proc[p].snap.exists
        /\ proc[p].snap.status = "pending"
        /\ proc'[p].pc = "idle" /\ last'.result = "ok"
        /\ profiles[proc[p].actor].exists
        /\ profiles[proc[p].actor].adminUse.status = "approved")
         => profiles'[proc[p].actor].adminUse.status = "approved"]_vars

\* C27: getUserTeams never removes a team id from a membership set,
\* whatever addUserToTeam does between its read and its write: every step
\* of a getUserTeams call leaves each id of the user's membership set in it.
C27_NeverRemovesMembership ==
  [][(call.pc \in {"initialise", "resolve"} /\ call'.pc \in {"resolve", "done"}
        /\ users[call.user].exists)
       => /\ users'[call.user].exists
          /\ Range(users[call.user].teams) \subseteq Range(users'[call.user].teams)]_vars

\* ======================================================================
\* Properties of the 2FA reset
\* ======================================================================
\* C28: a 2FA reset token is single-use: for each token at most one
\* confirm2FAReset call succeeds, and after a successful confirmation the
\* token document no longer exists.
C28_TokenSingleUse ==
  [][\A c \in {"c1", "c2"} :
       (reset[c].pc = "delete" /\ reset'[c].pc = "idle" /\ rlast'.result = "success")
         => /\ Trim(reset[c].arg) \notin rlast.confirmed
            /\ ~tokens'[reset[c].doc].exists]_vars

\* ======================================================================
\* Properties of initializeTeams
\* ======================================================================
\* C29: initializeTeams never creates duplicates: whatever runs have taken
\* place, one after another or overlapping, each predefined team name is
\* the name of at most one team document; and a run whose read finds the
\* teams collection non-empty writes nothing and returns false.
C29_NoDuplicateTeams ==
  /\ [](\A n \in DOMAIN TeamsToCreate :
          Cardinality({ i \in DOMAIN teams :
                          teams[i].exists /\ teams[i].name = TeamsToCreate[n].name }) <= 1)
  /\ [][\A r \in SeedRuns :
          (seed[r].pc \in {"idle", "returned"} /\ seed'[r] # seed[r]
             /\ ~CollectionEmpty(teams))
            => teams' = teams /\ seed'[r] = SeedReturned(FALSE, 0)]_vars

\* ======================================================================
\* Properties of updateAndResubmitProfile's write
\* ======================================================================
\* C30: the write of a successful updateAndResubmitProfile(updatedProfile)
\* leaves each of personalDetails, driving and medicalQualifications equal
\* to the value updatedProfile has for it, and to the empty object when
\* updatedProfile has none, and leaves submission.agreedToTerms,
\* adminUse.approvedBy and adminUse.reviewedAt as it found them.
C30_ResubmitReplacesSections ==
  [][\A p \in Procs :
       (proc[p].pc = "resubmit" /\ proc'[p].pc = "idle" /\ last'.result = "ok")
       => LET u == proc[p].actor
              d == profiles[u]
              e == profiles'[u]
              updatedProfile == last'.args.updatedProfile
          IN /\ \A sec \in Sections :
                  e[sec] = IF updatedProfile[sec] = Undefined THEN EmptyObject
                           ELSE updatedProfile[sec]
             /\ e.submission.agreedToTerms = d.submission.agreedToTerms
             /\ e.adminUse.approvedBy = d.adminUse.approvedBy
             /\ e.adminUse.reviewedAt = d.adminUse.reviewedAt]_vars

\* An approved profile has been resubmitted with no sections: driving is now the empty object, and the
\* agreement and the reviewer are still recorded.
C30_Witness ==
  /\ last.op = "updateAndResubmitProfile" /\ last.result = "ok"
  /\ last.pre = "approved"
  /\ last.args.updatedProfile.driving = Undefined
  /\ profiles["u1"].driving = EmptyObject
  /\ profiles["u1"].submission.agreedToTerms
  /\ profiles["u1"].adminUse.approvedBy = "u2"
  /\ profiles["u1"].adminUse.reviewedAt # NullTimestamp

====
